---------------------------- MODULE Spec2Model ----------------------------
(***************************************************************************)
(* A model of the node-graph compiler pipeline of femurdev/potential:      *)
(*   - normalize_ir            (project/scripts/emit_and_compile.py)       *)
(*   - build_adj, topological_sort, _canonical_type, _is_compatible,       *)
(*     _infer_literal_type, validate_types (project/compiler/validator.py) *)
(*   - CppEmitter              (project/compiler/cpp_emitter.py)           *)
(*   - map_errors_to_nodes     (project/scripts/emit_and_compile.py)       *)
(* Each component has its own specification (SpecNorm, SpecTopo,           *)
(* SpecTypes, SpecVal, SpecEmit, SpecMap) over the shared variables; the   *)
(* variables of the components that a specification does not exercise     *)
(* stay at their idle values.                                              *)
(***************************************************************************)
EXTENDS Integers, Sequences, FiniteSets, TLC

VARIABLES
    ir,          \* the IR document: [nodes, edges]
    normCount,   \* how many times normalize_ir has been applied to ir
    irOnce,      \* the IR as it was after the first normalize_ir
    tpc,         \* topological_sort: position ("idle","build","loop","done")
    adj,         \* topological_sort: out-adjacency, node id -> list of ids
    indeg,       \* topological_sort: in-degree, node id -> count
    q,           \* topological_sort: the ready queue
    order_ids,   \* topological_sort: the ids popped so far
    tresult,     \* topological_sort: [kind |-> "none"], the order, or the error raised
    arg_expected, \* _is_compatible: its first argument
    arg_actual,  \* _is_compatible: its second argument
    compatible,  \* _is_compatible: <<>> before the call, then <<its result>>
    vpc,         \* validate_types: position ("idle","types","conns","ports","done")
    id_to_out_type, \* validate_types: node id -> output type (None: no entry)
    conns,       \* validate_types: the connections (from, to, toPort, fromPort)
    pending,     \* validate_types: the connections in the order of the port loop
    vi,          \* validate_types: the place in pending of the next connection
    compared,    \* validate_types: the calls of _is_compatible made so far
    vresult,     \* validate_types: [kind |-> "none"], "ok", or the error raised
    self_node_defs, \* CppEmitter.node_defs: the catalog handed to the emitter
    includes,    \* CppEmitter.includes: the set of include directives
    code_lines,  \* CppEmitter.code_lines: the emitted lines
    indent_level, \* CppEmitter.indent_level
    var_names,   \* CppEmitter.var_names: node id -> C++ variable name (top level)
    _used_names, \* CppEmitter._used_names: base name -> times handed out
    mapping,     \* CppEmitter.mapping: the mapping entries, in order of recording
    epc,         \* emit(): position ("idle","start","function","fnodes","freturn",
                 \*   "main","nodes","endmain","finalize","done","raised")
    fidx,        \* emit(): the place in ir.functions of the function being emitted
    ordered,     \* emit_function_def / emit_from_graph: the nodes in emission order
    oi,          \* the place in ordered of the next node to emit
    local_var_names,  \* emit_function_def: node id -> name, in the function scope
    local_used_names, \* emit_function_def: base name -> times handed out
    errors,      \* map_errors_to_nodes: the diagnostics to map
    mapped,      \* map_errors_to_nodes: the results so far
    mpc,         \* map_errors_to_nodes: position ("idle","loop","done")
    frags,       \* emit_line_with_fragments: the fragments of the last call
    returned,    \* emit_line_with_fragments: the line number the last call returned
    rpc,         \* docker_runner: position ("idle","create","start","wait","logs",
                 \*   "read","remove","print","exit","raised")
    job,         \* the request in input.json and what its program needs
    timeout,     \* docker_runner: --timeout
    container,   \* the container ("none","created","running","exited","killed","removed")
    output_json, \* /workspace/output.json: "absent", "partial" or the object written
    docker_calls, \* the docker subcommands run so far, in order
    finished,    \* docker_runner: finished
    exit_code,   \* docker_runner: exit_code
    result,      \* docker_runner: result (None before it is set)
    printed,     \* the objects printed on stdout, in order
    dpc,         \* emit_compile_run: position ("idle","normalize","validate","emit",
                 \*   "write","compile","run","exit","raised")
    steps,       \* emit_compile_run: the steps taken so far, in order
    files,       \* emit_compile_run: the files written so far
    rc,          \* emit_compile_run: the value returned (NotReturned before)
    set_order,   \* the order in which this interpreter iterates a set of includes
    first_run    \* <<>>, or what the first of two runs of emit() produced

normVars == <<normCount, irOnce>>
topoVars == <<tpc, adj, indeg, q, order_ids, tresult>>
typeVars == <<arg_expected, arg_actual, compatible>>
valVars == <<vpc, id_to_out_type, conns, pending, vi, compared, vresult>>
emitVars == <<self_node_defs, includes, code_lines, indent_level, var_names, _used_names,
              mapping, epc, fidx, ordered, oi, local_var_names, local_used_names>>
mapVars == <<errors, mapped, mpc>>
fragVars == <<frags, returned>>
runVars == <<rpc, job, timeout, container, output_json, docker_calls, finished, exit_code,
             result, printed>>
drvVars == <<dpc, steps, files, rc>>
twiceVars == <<set_order, first_run>>
restVars == <<fragVars, runVars, drvVars, twiceVars>>

-----------------------------------------------------------------------------
(* Bounds of the model *)

\* longest edge list / wiring drawn for the normalizer
MaxNormEdges == 3
\* longest edge list / wiring drawn for topological_sort
MaxTopoEdges == 3
\* how many times in a row normalize_ir is applied
MaxNormRuns == 2
\* longest edge list drawn for validate_types
MaxValEdges == 3

(* Input alphabet *)

\* the ids of the nodes of the IR, in the order of ir.nodes
NodeList == <<"A", "B", "C">>
\* an id that no node carries
UnknownId == "X"
\* Python's None: an absent key, a missing port name
None == "None"
\* emit_compile_run has not returned
NotReturned == -1

-----------------------------------------------------------------------------
(* Sequence helpers *)

Range(s) == {s[i] : i \in DOMAIN s}

SeqsUpTo(S, n) == UNION {[1..k -> S] : k \in 0..n}

\* list.append guarded by "if x not in list"
AppendUnique(s, x) == IF x \in Range(s) THEN s ELSE Append(s, x)

\* the index of the first element of s equal to x (0 when there is none)
IndexOf(s, x) ==
    IF x \in Range(s) THEN CHOOSE i \in DOMAIN s : s[i] = x /\ \A j \in 1..(i-1) : s[j] # x
    ELSE 0

RECURSIVE SelectFrom(_, _, _)
\* [s[i].from : i with s[i].to = to], in order
SelectFrom(s, to, i) ==
    IF i > Len(s) THEN <<>>
    ELSE IF s[i].to = to THEN <<s[i].from>> \o SelectFrom(s, to, i + 1)
    ELSE SelectFrom(s, to, i + 1)

-----------------------------------------------------------------------------
(* The IR *)

PortEdge(frm, to, toPort, fromPort) ==
    [from |-> frm, to |-> to, toPort |-> toPort, fromPort |-> fromPort]

Edge(frm, to) == PortEdge(frm, to, None, None)

TypedNode(id, type, value, inputs) ==
    [id |-> id, type |-> type, value |-> value, inputs |-> inputs, outputs |-> <<>>]

Node(id, inputs) == TypedNode(id, "Add", None, inputs)

NodeIdsOf(nodes) == {nodes[i].id : i \in DOMAIN nodes}

NodeById(nodes, id) == nodes[CHOOSE i \in DOMAIN nodes : nodes[i].id = id]

AllIds == Range(NodeList) \cup {UnknownId}

\* a wiring: a list of (from, to) pairs over known and unknown ids
Wirings(n) == SeqsUpTo(AllIds \X AllIds, n)

WiringEdges(w) == [i \in DOMAIN w |-> Edge(w[i][1], w[i][2])]

\* the IR that states wiring w as an edge list; the nodes' own inputs lists
\* are empty or (stale) hold leftovers that the edge list does not mention
IRWithEdges(w, stale) ==
    [nodes |-> [i \in DOMAIN NodeList |->
                  Node(NodeList[i], IF stale THEN <<UnknownId, NodeList[i]>> ELSE <<>>)],
     edges |-> WiringEdges(w)]

\* the IR that states wiring w through the nodes' inputs lists (no edge list);
\* pairs whose destination is no node cannot be written that way
IRWithInputs(w) ==
    [nodes |-> [i \in DOMAIN NodeList |->
                  Node(NodeList[i], SelectFrom(WiringEdges(w), NodeList[i], 1))],
     edges |-> <<>>]

-----------------------------------------------------------------------------
(* normalize_ir *)

RECURSIVE InputsMap(_, _, _, _)
\* inputs_map[nid] after the loop over edges[i..]: the known sources of the
\* edges into nid, in edge order, each once
InputsMap(edges, node_ids, nid, i) ==
    IF i = 0 THEN <<>>
    ELSE LET e == edges[i]
             rest == InputsMap(edges, node_ids, nid, i - 1)
         IN  IF e.from \notin node_ids \/ e.to \notin node_ids THEN rest
             ELSE IF e.to = nid THEN AppendUnique(rest, e.from)
             ELSE rest

RECURSIVE OutputsMap(_, _, _, _)
\* outputs_map[nid]: the known destinations of the edges out of nid, each once
OutputsMap(edges, node_ids, nid, i) ==
    IF i = 0 THEN <<>>
    ELSE LET e == edges[i]
             rest == OutputsMap(edges, node_ids, nid, i - 1)
         IN  IF e.from \notin node_ids \/ e.to \notin node_ids THEN rest
             ELSE IF e.from = nid THEN AppendUnique(rest, e.to)
             ELSE rest

RECURSIVE EdgesOfInputs(_, _, _, _)
\* the edges synthesized from node.inputs[k..] of one node, unknown sources skipped
EdgesOfInputs(inputs, to, node_ids, k) ==
    IF k > Len(inputs) THEN <<>>
    ELSE (IF inputs[k] \in node_ids THEN <<Edge(inputs[k], to)>> ELSE <<>>)
         \o EdgesOfInputs(inputs, to, node_ids, k + 1)

RECURSIVE SynthEdges(_, _, _)
\* the edges synthesized from the inputs of nodes[i..], in node order
SynthEdges(nodes, node_ids, i) ==
    IF i > Len(nodes) THEN <<>>
    ELSE EdgesOfInputs(nodes[i].inputs, nodes[i].id, node_ids, 1)
         \o SynthEdges(nodes, node_ids, i + 1)

RECURSIVE Uniq(_, _)
\* edges[1..i] with every (from, to) pair kept at its first occurrence
Uniq(edges, i) ==
    IF i = 0 THEN <<>>
    ELSE LET rest == Uniq(edges, i - 1)
         IN  IF \E j \in 1..(i-1) : edges[j].from = edges[i].from /\ edges[j].to = edges[i].to
             THEN rest ELSE Append(rest, edges[i])

\* the branch "if edges:" : inputs and outputs rebuilt from the edge list,
\* ir['edges'] itself left as it is
NormalizeFromEdges(r) ==
    LET node_ids == NodeIdsOf(r.nodes)
    IN  [r EXCEPT !.nodes = [i \in DOMAIN r.nodes |->
            [r.nodes[i] EXCEPT
                !.inputs = InputsMap(r.edges, node_ids, r.nodes[i].id, Len(r.edges)),
                !.outputs = OutputsMap(r.edges, node_ids, r.nodes[i].id, Len(r.edges))]]]

\* the branch "else:" : ir['edges'] synthesized from node.inputs, outputs
\* rebuilt from it, node.inputs left as they are
NormalizeFromInputs(r) ==
    LET node_ids == NodeIdsOf(r.nodes)
        edges == SynthEdges(r.nodes, node_ids, 1)
        uniq == Uniq(edges, Len(edges))
    IN  [r EXCEPT !.nodes = [i \in DOMAIN r.nodes |->
            [r.nodes[i] EXCEPT
                !.outputs = OutputsMap(uniq, node_ids, r.nodes[i].id, Len(uniq))]],
                  !.edges = uniq]

normalize_ir(r) ==
    IF r.edges # <<>> THEN NormalizeFromEdges(r) ELSE NormalizeFromInputs(r)

-----------------------------------------------------------------------------
(* build_adj and topological_sort *)

\* the connections build_adj walks: the edge list, or ("fallback to
\* node.inputs") one connection per listed input, node by node
ConnList(nodes, edges) ==
    IF edges # <<>> THEN edges ELSE SynthEdges(nodes, AllIds, 1)

RECURSIVE SelectTo(_, _, _)
\* [s[i].to : i with s[i].from = frm], in order
SelectTo(s, frm, i) ==
    IF i > Len(s) THEN <<>>
    ELSE IF s[i].from = frm THEN <<s[i].to>> \o SelectTo(s, frm, i + 1)
    ELSE SelectTo(s, frm, i + 1)

\* indeg[nid]: one count per connection into nid ("indeg[to] += 1")
IndegOf(cs, nid) == Cardinality({i \in DOMAIN cs : cs[i].to = nid})

\* a build_adj with from and to swapped in "adj[frm].append(to); indeg[to] += 1"
build_adj_swapped(cs, node_ids) ==
    [adj |-> [nid \in node_ids |-> SelectFrom(cs, nid, 1)],
     indeg |-> [nid \in node_ids |->
                  Cardinality({i \in DOMAIN cs : cs[i].from = nid})]]

RECURSIVE Dedup(_, _)
Dedup(s, i) == IF i = 0 THEN <<>> ELSE AppendUnique(Dedup(s, i - 1), s[i])

\* a build_adj that appends to adj[frm] only "if to not in adj[frm]"
build_adj_dedup(cs, node_ids) ==
    [adj |-> [nid \in node_ids |->
                LET all == SelectTo(cs, nid, 1) IN Dedup(all, Len(all))],
     indeg |-> [nid \in node_ids |-> IndegOf(cs, nid)]]

\* build_adj when no connection is rejected: adj[nid] has one entry per
\* connection out of nid ("adj[frm].append(to)"), in connection order
build_adj(cs, node_ids) ==
    [adj |-> [nid \in node_ids |-> SelectTo(cs, nid, 1)],
     indeg |-> [nid \in node_ids |-> IndegOf(cs, nid)]]

\* the first connection build_adj rejects (0 when it rejects none)
FirstUnknown(cs, node_ids) ==
    LET bad == {i \in DOMAIN cs : cs[i].from \notin node_ids \/ cs[i].to \notin node_ids}
    IN  IF bad = {} THEN 0 ELSE CHOOSE i \in bad : \A j \in bad : i <= j

\* the ValidationError build_adj raises for connection c
UnknownNodeError(c, node_ids, fallback) ==
    IF fallback THEN [kind |-> "UnknownNode", node |-> c.to, input |-> c.from]
    ELSE [kind |-> "UnknownNode", node |-> IF c.from \notin node_ids THEN c.from ELSE c.to]

RECURSIVE ReadyReversed(_, _, _)
\* a ready queue that lists the zero in-degree nodes last to first
ReadyReversed(nodes, deg, i) ==
    IF i > Len(nodes) THEN <<>>
    ELSE ReadyReversed(nodes, deg, i + 1)
         \o (IF deg[nodes[i].id] = 0 THEN <<nodes[i].id>> ELSE <<>>)

RECURSIVE ReadyIn(_, _, _)
\* q = [nid for nid, d in indeg.items() if d == 0]: dict order is node order
ReadyIn(nodes, deg, i) ==
    IF i > Len(nodes) THEN <<>>
    ELSE (IF deg[nodes[i].id] = 0 THEN <<nodes[i].id>> ELSE <<>>)
         \o ReadyIn(nodes, deg, i + 1)

RECURSIVE Release(_, _, _, _)
\* the loop "for m in adj[n]" from its k-th entry on: [indeg, q] afterwards
Release(succ, deg, queue, k) ==
    IF k > Len(succ) THEN [indeg |-> deg, q |-> queue]
    ELSE LET m == succ[k]
             d == [deg EXCEPT ![m] = @ - 1]
         IN  Release(succ, d, IF d[m] = 0 THEN Append(queue, m) ELSE queue, k + 1)

\* a final check that never raises
OrderResultUnchecked(order, nodes) == [kind |-> "ok", order |-> order]

\* "if len(order_ids) != len(nodes): raise", else the order
OrderResult(order, nodes) ==
    IF Len(order) # Len(nodes) THEN [kind |-> "Cycle", cycle |-> TRUE]
    ELSE [kind |-> "ok", order |-> order]

-----------------------------------------------------------------------------
(* The type lattice: _canonical_type, _is_compatible, _infer_literal_type *)

\* the type names the model draws from: the aliases the code names, two
\* spellings with capitals, a name the code does not know in two spellings,
\* the empty name and no name at all
TypeNames ==
    {None, "", "number", "double", "float", "int", "string", "bool", "any", "auto",
     "Number", "INT", "vec3", "Vec3"}

\* str.lower() on the names of TypeNames
Lower(t) ==
    CASE t = "Number" -> "number"
      [] t = "INT" -> "int"
      [] t = "Vec3" -> "vec3"
      [] OTHER -> t

\* "if not x": None and the empty string are falsy
Falsy(x) == x = None \/ x = ""

_canonical_type(t) ==
    IF Falsy(t) THEN "any"
    ELSE LET l == Lower(t)
         IN  IF l \in {"number", "double", "float"} THEN "double"
             ELSE IF l = "int" THEN "int"
             ELSE IF l = "string" THEN "string"
             ELSE IF l = "bool" THEN "bool"
             ELSE IF l = "any" \/ l = "auto" THEN "any"
             ELSE l

\* an _is_compatible that widens in both directions
_is_compatible_symmetric(e_name, a_name) ==
    LET e == _canonical_type(e_name)
        a == _canonical_type(a_name)
    IN  \/ e = "any" \/ a = "any"
        \/ e = a
        \/ {e, a} = {"double", "int"}

_is_compatible(e_name, a_name) ==
    LET e == _canonical_type(e_name)
        a == _canonical_type(a_name)
    IN  IF e = "any" \/ a = "any" THEN TRUE
        ELSE IF e = a THEN TRUE
        ELSE IF e = "double" /\ a = "int" THEN TRUE
        ELSE FALSE

\* the kinds of properties.value: a Python bool is an instance of int, too
ValueKinds == {"bool", "int", "float", "str", "list"}
IsInstanceBool(val) == val = "bool"
IsInstanceInt(val) == val \in {"bool", "int"}

_infer_literal_type(val) ==
    IF IsInstanceBool(val) THEN "bool"
    ELSE IF IsInstanceInt(val) /\ ~IsInstanceBool(val) THEN "int"
    ELSE IF val = "float" THEN "double"
    ELSE IF val = "str" THEN "string"
    ELSE "any"

-----------------------------------------------------------------------------
(* validate_types *)

Port(name, type) == [name |-> name, type |-> type]

\* the optional lib descriptor {include, name} of a catalog entry, when absent
NoLib == [include |-> None, name |-> None]

\* the catalog handed to validate_types and to the emitter: the built-in
\* kinds named by the tests (Add with ports a and b, Print with port value,
\* Literal), a kind whose two input ports differ in type, and a library kind
\* with a lib descriptor
node_defs ==
    [t \in {"Literal", "Add", "Print", "Repeat", "Sqrt"} |->
        CASE t = "Literal" -> [inputs |-> <<>>, outputs |-> <<Port("out", "any")>>,
                               lib |-> NoLib]
          [] t = "Add" -> [inputs |-> <<Port("a", "number"), Port("b", "number")>>,
                           outputs |-> <<Port("out", "number")>>, lib |-> NoLib]
          [] t = "Print" -> [inputs |-> <<Port("value", "any")>>, outputs |-> <<>>,
                             lib |-> NoLib]
          [] t = "Repeat" -> [inputs |-> <<Port("a", "string"), Port("b", "int")>>,
                              outputs |-> <<Port("out", "string")>>, lib |-> NoLib]
          [] t = "Sqrt" -> [inputs |-> <<Port("x", "number")>>,
                            outputs |-> <<Port("out", "number")>>,
                            lib |-> [include |-> "<cmath>", name |-> "sqrt"]]]

\* node_defs.get(type, {}) read through .get('inputs', []) / .get('outputs', [])
DefOf(type) ==
    IF type \in DOMAIN node_defs THEN node_defs[type]
    ELSE [inputs |-> <<>>, outputs |-> <<>>]

PortNames(ports) == [i \in DOMAIN ports |-> ports[i].name]

\* next((p for p in ports if p.get('name') == name), None): its place, or 0
FindPort(ports, name) ==
    LET at == {i \in DOMAIN ports : ports[i].name = name}
    IN  IF at = {} THEN 0 ELSE CHOOSE i \in at : \A j \in at : i <= j

\* the first node whose type has no catalog entry (0 when every type has one)
FirstUnknownType(nodes) ==
    LET bad == {i \in DOMAIN nodes : nodes[i].type \notin DOMAIN node_defs}
    IN  IF bad = {} THEN 0 ELSE CHOOSE i \in bad : \A j \in bad : i <= j

\* id_to_out_type after the two loops over the nodes (None: no entry)
OutTypeOf(n) ==
    IF n.type = "Literal" THEN _infer_literal_type(n.value)
    ELSE LET outs == DefOf(n.type).outputs
         IN  IF outs # <<>> THEN outs[1].type ELSE None

\* conns: the edge list, or one positional connection per listed input
BuildConns(nodes, edges) ==
    IF edges # <<>> THEN edges ELSE SynthEdges(nodes, AllIds, 1)

RECURSIVE IncomingOf(_, _, _)
\* incoming_by_dest[dest]: the places in cs of the connections into dest
IncomingOf(cs, dest, i) ==
    IF i > Len(cs) THEN <<>>
    ELSE (IF cs[i].to = dest THEN <<i>> ELSE <<>>) \o IncomingOf(cs, dest, i + 1)

RECURSIVE PortLoopOrder(_, _, _)
\* the connections of the destinations dests[k..], destination by destination,
\* each with idx, its place among the connections into its destination
PortLoopOrder(cs, dests, k) ==
    IF k > Len(dests) THEN <<>>
    ELSE LET incoming == IncomingOf(cs, dests[k], 1)
         IN  [j \in DOMAIN incoming |-> [ci |-> incoming[j], idx |-> j - 1]]
             \o PortLoopOrder(cs, dests, k + 1)

\* a port loop that walks the connections in the order of the edge list
GroupByDestFlat(cs) ==
    [i \in DOMAIN cs |-> [ci |-> i, idx |-> Len(IncomingOf(SubSeq(cs, 1, i - 1), cs[i].to, 1))]]

\* "for dest, incoming in incoming_by_dest.items()": a dict keeps the order
\* in which its keys were first set
GroupByDest(cs) ==
    LET tos == [i \in DOMAIN cs |-> cs[i].to]
    IN  PortLoopOrder(cs, Dedup(tos, Len(tos)), 1)

NoError == [kind |-> "none"]

\* a mismatch error that suggests the canonical family instead of the
\* expected type as declared
TypeMismatchErrorCanonical(c, exp, act) ==
    [kind |-> "TypeMismatch", from |-> c.from, to |-> c.to, toPort |-> c.toPort,
     expected |-> exp, actual |-> act, suggested_cast |-> _canonical_type(exp)]

TypeMismatchError(c, exp, act) ==
    [kind |-> "TypeMismatch", from |-> c.from, to |-> c.to, toPort |-> c.toPort,
     expected |-> exp, actual |-> act, suggested_cast |-> exp]

\* the expected type of connection c, idx-th into its destination:
\* [err |-> an error or NoError, type |-> the type]
ExpectedLenient(c, idx, nodes) ==
    LET dest_inputs == DefOf(NodeById(nodes, c.to).type).inputs
        found == FindPort(dest_inputs, c.toPort)
    IN  IF ~Falsy(c.toPort) /\ found # 0
        THEN [err |-> NoError, type |-> dest_inputs[found].type]
        ELSE [err |-> NoError,
              type |-> IF idx < Len(dest_inputs) THEN dest_inputs[idx + 1].type ELSE "any"]

ExpectedOf(c, idx, nodes) ==
    LET dest_inputs == DefOf(NodeById(nodes, c.to).type).inputs
        found == FindPort(dest_inputs, c.toPort)
    IN  IF ~Falsy(c.toPort)
        THEN IF found = 0
             THEN [err |-> [kind |-> "MissingInputPort", node |-> c.to,
                            missing_input_port |-> c.toPort,
                            valid_ports |-> PortNames(dest_inputs)],
                   type |-> None]
             ELSE [err |-> NoError, type |-> dest_inputs[found].type]
        ELSE [err |-> NoError,
              type |-> IF idx < Len(dest_inputs) THEN dest_inputs[idx + 1].type ELSE "any"]

\* the actual type of connection c: [err, type]
ActualOf(c, nodes, out_types) ==
    LET src_outputs == DefOf(NodeById(nodes, c.from).type).outputs
        found_out == FindPort(src_outputs, c.fromPort)
    IN  IF ~Falsy(c.fromPort)
        THEN IF found_out = 0
             THEN [err |-> [kind |-> "MissingOutputPort", node |-> c.from,
                            missing_output_port |-> c.fromPort,
                            valid_output_ports |-> PortNames(src_outputs)],
                   type |-> None]
             ELSE [err |-> NoError, type |-> src_outputs[found_out].type]
        ELSE [err |-> NoError,
              type |-> IF ~Falsy(out_types[c.from]) THEN out_types[c.from]
                       ELSE IF src_outputs # <<>> THEN src_outputs[1].type
                       ELSE "any"]

\* the body of the port loop for one connection:
\* [err |-> the error raised or NoError, calls |-> the _is_compatible calls made]
check_connection(c, idx, nodes, out_types) ==
    LET exp == ExpectedOf(c, idx, nodes)
    IN  IF exp.err # NoError THEN [err |-> exp.err, calls |-> <<>>]
        ELSE LET act == ActualOf(c, nodes, out_types)
             IN  IF act.err # NoError THEN [err |-> act.err, calls |-> <<>>]
                 ELSE [err |-> IF _is_compatible(exp.type, act.type) THEN NoError
                               ELSE TypeMismatchError(c, exp.type, act.type),
                       calls |-> <<[conn |-> c, expected |-> exp.type, actual |-> act.type]>>]

-----------------------------------------------------------------------------
(* Idle values of the components *)

NormIdle == normCount = 0 /\ irOnce = <<>>

TopoIdle ==
    /\ tpc = "idle"
    /\ adj = <<>>
    /\ indeg = <<>>
    /\ q = <<>>
    /\ order_ids = <<>>
    /\ tresult = [kind |-> "none"]

TypesIdle == arg_expected = None /\ arg_actual = None /\ compatible = <<>>

ValIdle ==
    /\ vpc = "idle"
    /\ id_to_out_type = <<>>
    /\ conns = <<>>
    /\ pending = <<>>
    /\ vi = 0
    /\ compared = <<>>
    /\ vresult = [kind |-> "none"]

EmitIdle ==
    /\ self_node_defs = <<>>
    /\ includes = {}
    /\ code_lines = <<>>
    /\ indent_level = 0
    /\ var_names = <<>>
    /\ _used_names = <<>>
    /\ epc = "idle"
    /\ fidx = 0
    /\ ordered = <<>>
    /\ oi = 0
    /\ local_var_names = <<>>
    /\ local_used_names = <<>>

MapIdle == errors = <<>> /\ mapped = <<>> /\ mpc = "idle"

FragIdle == frags = <<>> /\ returned = 0

\* the components modelled after the diagnostic mapper do not run
RunIdle ==
    /\ rpc = "idle" /\ job = <<>> /\ timeout = 0 /\ container = "none"
    /\ output_json = <<>> /\ docker_calls = <<>> /\ finished = FALSE
    /\ exit_code = 0 /\ result = <<>> /\ printed = <<>>

DrvIdle == dpc = "idle" /\ steps = <<>> /\ files = {} /\ rc = NotReturned

TwiceIdle == set_order = <<>> /\ first_run = <<>>

RestIdle == FragIdle /\ RunIdle /\ DrvIdle /\ TwiceIdle

\* neither the emitter nor the diagnostic mapper runs
LaterIdle == EmitIdle /\ mapping = <<>> /\ MapIdle /\ RestIdle

-----------------------------------------------------------------------------
(* Specification of the normalizer: an IR is drawn, normalize_ir is applied *)
(* to it MaxNormRuns times                                                   *)

InitNorm ==
    /\ \E w \in Wirings(MaxNormEdges) :
          \/ \E stale \in BOOLEAN : ir = IRWithEdges(w, stale)
          \/ ir = IRWithInputs(w)
    /\ normCount = 0
    /\ irOnce = ir
    /\ TopoIdle
    /\ TypesIdle
    /\ ValIdle
    /\ LaterIdle

Normalize ==
    /\ normCount < MaxNormRuns
    /\ ir' = normalize_ir(ir)
    /\ normCount' = normCount + 1
    /\ irOnce' = IF normCount = 0 THEN ir' ELSE irOnce
    /\ UNCHANGED <<topoVars, typeVars, valVars, emitVars, mapVars, restVars>>

NextNorm == Normalize

vars == <<ir, normVars, topoVars, typeVars, valVars, emitVars, mapVars, restVars>>

SpecNorm == InitNorm /\ [][NextNorm]_vars

-----------------------------------------------------------------------------
(* Specification of topological_sort: an IR is drawn and sorted once *)

InitTopo ==
    /\ \E w \in Wirings(MaxTopoEdges) :
          \/ ir = IRWithEdges(w, FALSE)
          \/ ir = IRWithInputs(w)
    /\ NormIdle
    /\ TypesIdle
    /\ ValIdle
    /\ tpc = "build"
    /\ adj = <<>>
    /\ indeg = <<>>
    /\ q = <<>>
    /\ order_ids = <<>>
    /\ tresult = [kind |-> "none"]
    /\ LaterIdle

\* build_adj(nodes, edges), then the initial ready queue
BuildAdj ==
    /\ tpc = "build"
    /\ LET node_ids == NodeIdsOf(ir.nodes)
           cs == ConnList(ir.nodes, ir.edges)
           bad == FirstUnknown(cs, node_ids)
       IN  IF bad # 0
           THEN /\ tresult' = UnknownNodeError(cs[bad], node_ids, ir.edges = <<>>)
                /\ tpc' = "done"
                /\ UNCHANGED <<adj, indeg, q>>
           ELSE /\ adj' = build_adj(cs, node_ids).adj
                /\ indeg' = build_adj(cs, node_ids).indeg
                /\ q' = ReadyIn(ir.nodes, indeg', 1)
                /\ tpc' = "loop"
                /\ UNCHANGED tresult
    /\ UNCHANGED <<ir, emitVars, mapVars, restVars, normVars, typeVars, valVars, order_ids>>

\* one iteration of "while q": pop the head, release its successors
PopNode ==
    /\ tpc = "loop"
    /\ q # <<>>
    /\ LET n == Head(q)
           after == Release(adj[n], indeg, Tail(q), 1)
       IN  /\ order_ids' = Append(order_ids, n)
           /\ indeg' = after.indeg
           /\ q' = after.q
    /\ UNCHANGED <<ir, emitVars, mapVars, restVars, normVars, typeVars, valVars, tpc, adj, tresult>>

\* the queue is empty: the length check, and the result
FinishSort ==
    /\ tpc = "loop"
    /\ q = <<>>
    /\ tresult' = OrderResult(order_ids, ir.nodes)
    /\ tpc' = "done"
    /\ UNCHANGED <<ir, emitVars, mapVars, restVars, normVars, typeVars, valVars, adj, indeg, q, order_ids>>

NextTopo == BuildAdj \/ PopNode \/ FinishSort

SpecTopo == InitTopo /\ [][NextTopo]_vars

-----------------------------------------------------------------------------
(* Specification of the type lattice: _is_compatible is called once on a    *)
(* pair of type names                                                       *)

InitTypes ==
    /\ ir = [nodes |-> <<>>, edges |-> <<>>]
    /\ NormIdle
    /\ TopoIdle
    /\ ValIdle
    /\ arg_expected \in TypeNames
    /\ arg_actual \in TypeNames
    /\ compatible = <<>>
    /\ LaterIdle

CallIsCompatible ==
    /\ compatible = <<>>
    /\ compatible' = <<_is_compatible(arg_expected, arg_actual)>>
    /\ UNCHANGED <<ir, emitVars, mapVars, restVars, normVars, topoVars, valVars, arg_expected, arg_actual>>

NextTypes == CallIsCompatible

SpecTypes == InitTypes /\ [][NextTypes]_vars

-----------------------------------------------------------------------------
(* Specification of validate_types: nodes A, B, C of drawn kinds, wired by  *)
(* a drawn edge list (or by the inputs lists), are validated once against   *)
(* node_defs                                                                *)

\* what node A may be: a text literal, an integer literal, a kind without
\* catalog entry
KindsOfA == {<<"Literal", "str">>, <<"Literal", "int">>, <<"Bogus", None>>}
\* what node C may be
KindsOfC == {<<"Add", None>>, <<"Repeat", None>>, <<"Bogus", None>>}

\* the edges an edge list is drawn from: positional edges into B, positional
\* and named edges into C (port a is declared, port x is not), edges naming
\* an output port the source does not declare, edges naming an unknown node
ValEdgePool ==
    {PortEdge(f, "B", None, None) : f \in {"A", "B"}}
    \cup {PortEdge(f, "C", tp, None) : f \in {"A", "B"}, tp \in {None, "a", "x"}}
    \cup {PortEdge("A", "C", tp, "outX") : tp \in {"a", "x"}}
    \cup {PortEdge(UnknownId, "C", None, None), PortEdge("A", UnknownId, None, None)}

ValNodes(ka, kc, es, useEdges) ==
    LET In(id) == IF useEdges THEN <<>> ELSE SelectFrom(es, id, 1)
    IN  <<TypedNode("A", ka[1], ka[2], In("A")),
          TypedNode("B", "Add", None, In("B")),
          TypedNode("C", kc[1], kc[2], In("C"))>>

InitVal ==
    /\ \E ka \in KindsOfA, kc \in KindsOfC, es \in SeqsUpTo(ValEdgePool, MaxValEdges),
          useEdges \in BOOLEAN :
          ir = [nodes |-> ValNodes(ka, kc, es, useEdges),
                edges |-> IF useEdges THEN es ELSE <<>>]
    /\ NormIdle
    /\ TopoIdle
    /\ TypesIdle
    /\ vpc = "types"
    /\ id_to_out_type = <<>>
    /\ conns = <<>>
    /\ pending = <<>>
    /\ vi = 0
    /\ compared = <<>>
    /\ vresult = [kind |-> "none"]
    /\ LaterIdle

\* the loops over the nodes: every type has a catalog entry, or the first
\* that has none is reported; then the output type table
CheckNodeTypes ==
    /\ vpc = "types"
    /\ LET bad == FirstUnknownType(ir.nodes)
       IN  IF bad # 0
           THEN /\ vresult' = [kind |-> "UnknownNodeType", node_id |-> ir.nodes[bad].id,
                               node_type |-> ir.nodes[bad].type]
                /\ vpc' = "done"
                /\ UNCHANGED id_to_out_type
           ELSE /\ id_to_out_type' =
                        [id \in NodeIdsOf(ir.nodes) |-> OutTypeOf(NodeById(ir.nodes, id))]
                /\ vpc' = "conns"
                /\ UNCHANGED vresult
    /\ UNCHANGED <<ir, emitVars, mapVars, restVars, normVars, topoVars, typeVars, conns, pending, vi, compared>>

\* the connection list, the check that every endpoint exists, the grouping
\* of the connections by destination
CheckEndpoints ==
    /\ vpc = "conns"
    /\ conns' = BuildConns(ir.nodes, ir.edges)
    /\ LET bad == FirstUnknown(conns', NodeIdsOf(ir.nodes))
       IN  IF bad # 0
           THEN /\ vresult' = [kind |-> "UnknownEndpoint", from |-> conns'[bad].from,
                               to |-> conns'[bad].to]
                /\ vpc' = "done"
                /\ UNCHANGED <<pending, vi>>
           ELSE /\ pending' = GroupByDest(conns')
                /\ vi' = 1
                /\ vpc' = "ports"
                /\ UNCHANGED vresult
    /\ UNCHANGED <<ir, emitVars, mapVars, restVars, normVars, topoVars, typeVars, id_to_out_type, compared>>

\* one pass of the port loop: the next connection is bound to its ports and
\* its types are compared
CheckConn ==
    /\ vpc = "ports"
    /\ vi <= Len(pending)
    /\ LET r == check_connection(conns[pending[vi].ci], pending[vi].idx, ir.nodes,
                                 id_to_out_type)
       IN  /\ compared' = compared \o r.calls
           /\ IF r.err # NoError
              THEN vresult' = r.err /\ vpc' = "done" /\ UNCHANGED vi
              ELSE vi' = vi + 1 /\ UNCHANGED <<vresult, vpc>>
    /\ UNCHANGED <<ir, emitVars, mapVars, restVars, normVars, topoVars, typeVars, id_to_out_type, conns, pending>>

\* every connection passed: return True
ReturnTrue ==
    /\ vpc = "ports"
    /\ vi > Len(pending)
    /\ vresult' = [kind |-> "ok"]
    /\ vpc' = "done"
    /\ UNCHANGED <<ir, emitVars, mapVars, restVars, normVars, topoVars, typeVars, id_to_out_type, conns, pending, vi,
                   compared>>

NextVal == CheckNodeTypes \/ CheckEndpoints \/ CheckConn \/ ReturnTrue

SpecVal == InitVal /\ [][NextVal]_vars

-----------------------------------------------------------------------------
(* CppEmitter: text, names, types *)

\* text is a string; CharAt(s, i) is its i-th character
CharAt(s, i) == SubSeq(s, i, i)

Digits == {"0", "1", "2", "3", "4", "5", "6", "7", "8", "9"}

Letters ==
    {"a", "b", "c", "d", "e", "f", "g", "h", "i", "j", "k", "l", "m",
     "n", "o", "p", "q", "r", "s", "t", "u", "v", "w", "x", "y", "z",
     "A", "B", "C", "D", "E", "F", "G", "H", "I", "J", "K", "L", "M",
     "N", "O", "P", "Q", "R", "S", "T", "U", "V", "W", "X", "Y", "Z"}

RECURSIVE Spaces(_)
Spaces(n) == IF n = 0 THEN "" ELSE " " \o Spaces(n - 1)

\* "    " * self.indent_level
indent(level) == Spaces(4 * level)

RECURSIVE ReSubNonWord(_, _)
\* re.sub(r'[^0-9a-zA-Z_]', '_', s), on the first i characters of s
ReSubNonWord(s, i) ==
    IF i = 0 THEN ""
    ELSE ReSubNonWord(s, i - 1)
         \o (IF CharAt(s, i) \in Digits \cup Letters \cup {"_"} THEN CharAt(s, i) ELSE "_")

sanitize(node_id) ==
    LET s == ReSubNonWord(node_id, Len(node_id))
    IN  IF s # "" /\ CharAt(s, 1) \in Digits THEN "_" \o s ELSE s

\* dict.get(key, default) and dict[key] = value, a dict being a function
Get(d, key, default) == IF key \in DOMAIN d THEN d[key] ELSE default

Put(d, key, value) == [k \in DOMAIN d \cup {key} |-> IF k = key THEN value ELSE d[k]]

\* the name handed out for base when it was handed out count times before:
\* a numbering that starts at 0 ("base_0" for the first use)
NumberedFromZero(base, count) == base \o "_" \o ToString(count)

\* the bare base first, then base_1, base_2, ...
Numbered(base, count) ==
    IF count = 0 THEN base ELSE base \o "_" \o ToString(count)

\* make_var with the table of used names passed in: [name, used]
make_var(used, node_id) ==
    LET base == "v_" \o sanitize(node_id)
        count == Get(used, base, 0)
    IN  [name |-> Numbered(base, count), used |-> Put(used, base, count + 1)]

\* the make_var of emit_function_def: no guard against a leading digit
local_make_var(used, node_id) ==
    LET base == "v_" \o ReSubNonWord(node_id, Len(node_id))
        count == Get(used, base, 0)
    IN  [name |-> Numbered(base, count), used |-> Put(used, base, count + 1)]

\* TYPE_MAP.get(t, t)
cpp_type(t) ==
    CASE t = "number" -> "double"
      [] t = "double" -> "double"
      [] t = "int" -> "int"
      [] t = "string" -> "std::string"
      [] t = "bool" -> "bool"
      [] t = "any" -> "auto"
      [] OTHER -> t

RECURSIVE escape_string(_, _)
\* escape_string on the first i characters of s
escape_string(s, i) ==
    IF i = 0 THEN ""
    ELSE escape_string(s, i - 1)
         \o (CASE CharAt(s, i) = "\\" -> "\\\\"
               [] CharAt(s, i) = "\"" -> "\\\""
               [] CharAt(s, i) = "\n" -> "\\n"
               [] CharAt(s, i) = "\t" -> "\\t"
               [] OTHER -> CharAt(s, i))

\* the literal values the model draws from, named by their Python kind
\* (True, 7, 1.5, 'say "hi"', None), and str(val) of each
LiteralText(val) ==
    CASE val = "bool" -> "True"
      [] val = "int" -> "7"
      [] val = "float" -> "1.5"
      [] val = "str" -> "say \"hi\""
      [] OTHER -> "None"

-----------------------------------------------------------------------------
(* CppEmitter: mapping entries, fragment lines, input resolution *)

\* the columns of an entry that record_map wrote and _finalize_mappings has
\* not filled yet (None in the code; columns that are set are 1 or more)
NoCol == 0

MapEntry(node_id, function, start_line, end_line, start_col, end_col, port) ==
    [node_id |-> node_id, function |-> function, start_line |-> start_line,
     end_line |-> end_line, start_col |-> start_col, end_col |-> end_col, port |-> port]

\* the entry record_map appends
record_map(node_id, start_line, end_line, function) ==
    MapEntry(node_id, function, start_line, end_line, NoCol, NoCol, None)

\* a fragment without marker, and one whose text is a span of (node_id, port)
Plain(text) == [text |-> text, marker |-> FALSE, node_id |-> None, port |-> None]

Marked(text, node_id, port) ==
    [text |-> text, marker |-> TRUE, node_id |-> node_id, port |-> port]

RECURSIVE JoinText(_, _)
\* ''.join of the texts of fragments[1..k]
JoinText(fragments, k) ==
    IF k = 0 THEN "" ELSE JoinText(fragments, k - 1) \o fragments[k].text

\* spans that all start at the first column of the line
\* ("start_col = 1" instead of "start_col = offset + 1")
FragmentEntriesNoOffset(fragments, k, line_no, function) ==
    LET marked == SelectSeq(fragments, LAMBDA f : f.marker)
    IN  [i \in DOMAIN marked |->
            MapEntry(marked[i].node_id, function, line_no, line_no,
                     1, Len(marked[i].text), marked[i].port)]

RECURSIVE FragmentEntries(_, _, _, _)
\* the entries of the marked fragments among fragments[1..k]; the offset of
\* fragment k is the length of the text before it
FragmentEntries(fragments, k, line_no, function) ==
    IF k = 0 THEN <<>>
    ELSE LET offset == Len(JoinText(fragments, k - 1))
             frag == fragments[k]
         IN  FragmentEntries(fragments, k - 1, line_no, function)
             \o (IF frag.marker
                 THEN <<MapEntry(frag.node_id, function, line_no, line_no,
                                 offset + 1, offset + Len(frag.text), frag.port)>>
                 ELSE <<>>)

\* emit_line_with_fragments on the emitter state st (a record of the fields
\* code_lines and mapping among others): the line is appended, the spans
\* of its marked fragments are recorded
emit_line_with_fragments(st, fragments, function) ==
    [st EXCEPT !.code_lines = Append(@, JoinText(fragments, Len(fragments))),
               !.mapping = @ \o FragmentEntries(fragments, Len(fragments),
                                                Len(st.code_lines) + 1, function)]

\* self.code_lines.append(text)
append_line(st, text) == [st EXCEPT !.code_lines = Append(@, text)]

\* "end = len(self.code_lines); self.record_map(nid, start, end, function)"
close_node(st, nid, start, function) ==
    [st EXCEPT !.mapping = Append(@, record_map(nid, start, Len(st.code_lines), function))]

\* the edges into nid that name port toPort, and the one that binds it
\* ("incoming_by_node[to][toPort] = frm": the last one wins)
NamedInto(edges, nid, toPort) ==
    {i \in DOMAIN edges : edges[i].to = nid /\ edges[i].toPort = toPort}

NamedSource(edges, nid, toPort) ==
    edges[CHOOSE i \in NamedInto(edges, nid, toPort) :
            \A j \in NamedInto(edges, nid, toPort) : j <= i].from

RECURSIVE PositionalInto(_, _, _)
\* incoming_list_by_node[nid]: the sources of the edges into nid that name
\* no port, in edge order
PositionalInto(edges, nid, i) ==
    IF i > Len(edges) THEN <<>>
    ELSE (IF edges[i].to = nid /\ Falsy(edges[i].toPort) THEN <<edges[i].from>> ELSE <<>>)
         \o PositionalInto(edges, nid, i + 1)

\* _resolve_input_for_node(node, port_name, index, local maps): the source
\* node id, or None; local_edges are the edges of the function graph (<<>> at
\* top level), edges those of the IR
_resolve_input_for_node(node, port_name, index, local_edges, edges) ==
    LET nid == node.id
        local_list == PositionalInto(local_edges, nid, 1)
        list == PositionalInto(edges, nid, 1)
    IN  IF ~Falsy(port_name) /\ NamedInto(local_edges, nid, port_name) # {}
        THEN NamedSource(local_edges, nid, port_name)
        ELSE IF ~Falsy(port_name) /\ NamedInto(edges, nid, port_name) # {}
        THEN NamedSource(edges, nid, port_name)
        ELSE IF index < Len(local_list) THEN local_list[index + 1]
        ELSE IF index < Len(list) THEN list[index + 1]
        ELSE IF port_name = None /\ index < Len(node.inputs) THEN node.inputs[index + 1]
        ELSE None

\* "names.get(src, src if src else '0')"
ExprOf(names, src) == IF Falsy(src) THEN Get(names, src, "0") ELSE Get(names, src, src)

\* the catalog entry of a type, read through .get with its defaults
EmitDefOf(defs, type) ==
    IF type \in DOMAIN defs THEN defs[type]
    ELSE [inputs |-> <<>>, outputs |-> <<>>, lib |-> NoLib]

\* ensure_lib_includes: the include set after it
ensure_lib_includes(incs, defs, type) ==
    LET lib == EmitDefOf(defs, type).lib
    IN  IF lib # NoLib /\ ~Falsy(lib.include) THEN incs \cup {lib.include} ELSE incs

-----------------------------------------------------------------------------
(* CppEmitter: the statement of one node.  The operators below take and     *)
(* return the emitter state of the scope as a record st:                    *)
(*   includes, code_lines, mapping as in the emitter,                       *)
(*   names, used: var_names and _used_names (top level) or                  *)
(*                local_var_names and local_used_names (function scope),    *)
(*   raised: whether an exception left emit()                               *)

\* make_var at top level, local_make_var in a function
MakeVar(local, used, node_id) ==
    IF local THEN local_make_var(used, node_id) ELSE make_var(used, node_id)

\* st after "var = make_var(nid); names[nid] = var"
Bind(st, node_id, v) == [st EXCEPT !.used = v.used, !.names = Put(@, node_id, v.name)]

\* a literal typed by the order of validator._infer_literal_type:
\* bool before int
LiteralCTypeBoolFirst(val) ==
    IF val = "str" THEN "std::string"
    ELSE IF IsInstanceBool(val) THEN "bool"
    ELSE IF IsInstanceInt(val) \/ val = "float" THEN "double"
    ELSE "auto"

\* ctype of a Literal: isinstance(val, str), then isinstance(val, int) or
\* isinstance(val, float) (a bool is an int), else auto
LiteralCType(val) ==
    IF val = "str" THEN "std::string"
    ELSE IF IsInstanceInt(val) \/ val = "float" THEN "double"
    ELSE "auto"

\* lit of a Literal
LiteralLit(val) ==
    IF val = "str"
    THEN "\"" \o escape_string(LiteralText(val), Len(LiteralText(val))) \o "\""
    ELSE LiteralText(val)

LiteralIncludes(incs, val) == IF val = "str" THEN incs \cup {"<string>"} ELSE incs

\* the Literal branch of emit_function_def
EmitLocalLiteral(n, st, level, function) ==
    LET v == local_make_var(st.used, n.id)
        st1 == [Bind(st, n.id, v) EXCEPT !.includes = LiteralIncludes(@, n.value)]
    IN  emit_line_with_fragments(st1,
            <<Plain(indent(level) \o LiteralCType(n.value) \o " " \o v.name \o " = "),
              Marked(LiteralLit(n.value), n.id, "out"),
              Plain(";")>>, function)

\* the Literal branch of emit_from_graph: the call of emit_line_with_fragments
\* passes "function=name", and emit_from_graph binds no name: the NameError
\* leaves emit() after the include and the variable name were recorded
EmitTopLiteral(n, st, level) ==
    LET v == make_var(st.used, n.id)
    IN  [Bind(st, n.id, v) EXCEPT !.includes = LiteralIncludes(@, n.value),
                                  !.raised = TRUE]

OpOf(ntype) ==
    CASE ntype = "Add" -> "+"
      [] ntype = "Sub" -> "-"
      [] ntype = "Mul" -> "*"
      [] ntype = "Div" -> "/"

\* the Add/Sub/Mul/Div branch (the same in both scopes)
EmitArith(n, st, level, local, defs, local_edges, edges, function) ==
    LET input_ports == EmitDefOf(defs, n.type).inputs
        named == Len(input_ports) >= 2
        a_port == IF named THEN input_ports[1].name ELSE None
        b_port == IF named THEN input_ports[2].name ELSE None
        a_named == IF named THEN _resolve_input_for_node(n, a_port, 0, local_edges, edges)
                   ELSE None
        b_named == IF named THEN _resolve_input_for_node(n, b_port, 1, local_edges, edges)
                   ELSE None
        a_src == IF a_named = None
                 THEN _resolve_input_for_node(n, None, 0, local_edges, edges) ELSE a_named
        b_src == IF b_named = None
                 THEN _resolve_input_for_node(n, None, 1, local_edges, edges) ELSE b_named
        a == ExprOf(st.names, a_src)
        b == ExprOf(st.names, b_src)
        v == MakeVar(local, st.used, n.id)
    IN  emit_line_with_fragments(Bind(st, n.id, v),
            <<Plain(indent(level) \o "double " \o v.name \o " = "),
              Marked(a, n.id, IF Falsy(a_port) THEN "a" ELSE a_port),
              Plain(" " \o OpOf(n.type) \o " "),
              Marked(b, n.id, IF Falsy(b_port) THEN "b" ELSE b_port),
              Plain(";")>>, function)

\* the Cast branch (the same in both scopes)
EmitCast(n, st, level, local, local_edges, edges, function) ==
    LET target == IF n.targetType = None THEN "double" ELSE n.targetType
        in_src == _resolve_input_for_node(n, "in", 0, local_edges, edges)
        in_expr == ExprOf(st.names, in_src)
        v == MakeVar(local, st.used, n.id)
        tgt == cpp_type(target)
        to_string == _canonical_type(target) = "string"
        expr == IF to_string THEN "std::to_string(" \o in_expr \o ")"
                ELSE "static_cast<" \o tgt \o ">(" \o in_expr \o ")"
        st1 == [Bind(st, n.id, v) EXCEPT
                    !.includes = IF to_string THEN @ \cup {"<string>"} ELSE @]
    IN  emit_line_with_fragments(st1,
            <<Plain(indent(level) \o tgt \o " " \o v.name \o " = "),
              Marked(expr, n.id, "in"),
              Plain(";")>>, function)

RECURSIVE ArgsByPorts(_, _, _, _, _, _)
\* one argument per port of ports[1..k]: the source bound by port name, else
\* by position, and its expression
ArgsByPorts(n, ports, k, names, local_edges, edges) ==
    IF k = 0 THEN <<>>
    ELSE LET by_name == _resolve_input_for_node(n, ports[k].name, k - 1, local_edges, edges)
             src == IF by_name = None
                    THEN _resolve_input_for_node(n, None, k - 1, local_edges, edges)
                    ELSE by_name
         IN  Append(ArgsByPorts(n, ports, k - 1, names, local_edges, edges),
                    [port |-> ports[k].name, expr |-> ExprOf(names, src)])

\* one argument per entry of node.inputs: "(f'arg{idx}', var_names.get(src, src))"
ArgsByInputs(n, names) ==
    [i \in DOMAIN n.inputs |->
        [port |-> "arg" \o ToString(i - 1), expr |-> Get(names, n.inputs[i], n.inputs[i])]]

RECURSIVE ArgFragments(_, _, _)
\* the fragments of args[1..k]: every argument marked, the commas unmarked
ArgFragments(args, k, nid) ==
    IF k = 0 THEN <<>>
    ELSE ArgFragments(args, k - 1, nid)
         \o (IF k > 1 THEN <<Plain(", ")>> ELSE <<>>)
         \o <<Marked(args[k].expr, nid, args[k].port)>>

\* the fragments of "head(arg, ...);"
CallFragments(head, args, nid) ==
    <<Plain(head)>> \o ArgFragments(args, Len(args), nid) \o <<Plain(");")>>

\* a function table that keeps the first definition of a name
FunctionNamedFirst(functions, fname) ==
    LET at == {i \in DOMAIN functions : functions[i].name = fname}
    IN  IF at = {} THEN <<>> ELSE <<functions[CHOOSE i \in at : \A j \in at : i <= j]>>

\* "functions = {f['name']: f ...}; fdef = functions.get(fname)": <<>> when
\* there is none, else <<the last function of that name>>
FunctionNamed(functions, fname) ==
    LET at == {i \in DOMAIN functions : functions[i].name = fname}
    IN  IF at = {} THEN <<>> ELSE <<functions[CHOOSE i \in at : \A j \in at : j <= i]>>

\* the Call branch of emit_from_graph
EmitCall(n, st, level, edges, functions) ==
    LET fname == n.name
        found == FunctionNamed(functions, fname)
        args == IF found # <<>>
                THEN ArgsByPorts(n, found[1].params, Len(found[1].params), st.names,
                                 <<>>, edges)
                ELSE ArgsByInputs(n, st.names)
        v == make_var(st.used, n.id)
        cpp_ret == IF found = <<>> THEN "auto"
                   ELSE IF found[1].returnType = None THEN cpp_type("number")
                   ELSE cpp_type(found[1].returnType)
    IN  emit_line_with_fragments(Bind(st, n.id, v),
            CallFragments(indent(level) \o cpp_ret \o " " \o v.name \o " = " \o fname \o "(",
                          args, n.id), None)

\* the Print branch of emit_from_graph, up to the statement (the coarse
\* entry of the node follows in both cases)
EmitPrint(n, st, level, defs, edges) ==
    LET input_ports == EmitDefOf(defs, "Print").inputs
        named == Len(input_ports) >= 1
        src_port == IF named THEN input_ports[1].name ELSE None
        by_name == IF named THEN _resolve_input_for_node(n, src_port, 0, <<>>, edges)
                   ELSE None
        src_id == IF by_name = None THEN _resolve_input_for_node(n, None, 0, <<>>, edges)
                  ELSE by_name
    IN  IF Falsy(src_id)
        THEN append_line(st, indent(level) \o "// Print node " \o n.id \o " has no input")
        ELSE emit_line_with_fragments(st,
                <<Plain(indent(level) \o "std::cout << "),
                  Marked(Get(st.names, src_id, "\"\""), n.id,
                         IF Falsy(src_port) THEN "value" ELSE src_port),
                  Plain(" << std::endl;")>>, None)

\* "out_type = cpp_type(returns[0].get('type')) if returns else 'double'"
LibOutType(ddef) ==
    IF ddef.outputs # <<>> THEN cpp_type(ddef.outputs[1].type) ELSE "double"

\* the last branch of emit_from_graph: a library call when the catalog
\* entry has a lib descriptor, else a comment
EmitTopOther(n, st, level, defs, edges) ==
    LET ddef == EmitDefOf(defs, n.type)
        args == IF ddef.inputs # <<>>
                THEN ArgsByPorts(n, ddef.inputs, Len(ddef.inputs), st.names, <<>>, edges)
                ELSE ArgsByInputs(n, st.names)
        v == make_var(st.used, n.id)
    IN  IF ddef.lib # NoLib
        THEN emit_line_with_fragments(Bind(st, n.id, v),
                CallFragments(indent(level) \o LibOutType(ddef) \o " " \o v.name \o " = "
                              \o ddef.lib.name \o "(", args, n.id), None)
        ELSE append_line(st, indent(level) \o "// Unhandled node " \o n.id \o " of type "
                             \o n.type)

\* the last branch of emit_function_def: the arguments of a library call
\* follow the declared input ports; the comment of an unhandled node is a
\* fragment marked with port None
EmitLocalOther(n, st, level, defs, local_edges, edges, function) ==
    LET ddef == EmitDefOf(defs, n.type)
        args == ArgsByPorts(n, ddef.inputs, Len(ddef.inputs), st.names, local_edges, edges)
        v == local_make_var(st.used, n.id)
    IN  IF ddef.lib # NoLib
        THEN emit_line_with_fragments(Bind(st, n.id, v),
                CallFragments(indent(level) \o LibOutType(ddef) \o " " \o v.name \o " = "
                              \o ddef.lib.name \o "(", args, n.id), function)
        ELSE emit_line_with_fragments(st,
                <<Marked(indent(level) \o "// Unhandled node " \o n.id \o " of type "
                         \o n.type \o " inside function", n.id, None)>>, function)

-----------------------------------------------------------------------------
(* CppEmitter: the loops over the nodes, the function frame, the includes,  *)
(* the finalization                                                         *)

\* the ids that the inputs lists of nodes mention
InputIdsOf(nodes) == UNION {Range(nodes[i].inputs) : i \in DOMAIN nodes}

RECURSIVE KahnLoop(_, _, _, _)
\* "while q": the ids in the order they are popped
KahnLoop(out, deg, queue, order) ==
    IF queue = <<>> THEN order
    ELSE LET after == Release(out[Head(queue)], deg, Tail(queue), 1)
         IN  KahnLoop(out, after.indeg, after.q, Append(order, Head(queue)))

\* topological_sort(nodes, edges) as one call: [kind |-> "ok", order |-> the
\* nodes in order], or the ValidationError raised
topological_sort(nodes, edges) ==
    LET node_ids == NodeIdsOf(nodes)
        cs == IF edges # <<>> THEN edges
              ELSE SynthEdges(nodes, node_ids \cup InputIdsOf(nodes), 1)
        bad == FirstUnknown(cs, node_ids)
        built == build_adj(cs, node_ids)
        r == OrderResult(KahnLoop(built.adj, built.indeg, ReadyIn(nodes, built.indeg, 1), <<>>),
                         nodes)
    IN  IF bad # 0 THEN UnknownNodeError(cs[bad], node_ids, edges = <<>>)
        ELSE IF r.kind # "ok" THEN r
        ELSE [kind |-> "ok", order |-> [i \in DOMAIN r.order |-> NodeById(nodes, r.order[i])]]

\* one pass of the loop of emit_from_graph over node n
EmitTopNode(n, st, level, defs, edges, functions) ==
    LET start == Len(st.code_lines) + 1
        st0 == [st EXCEPT !.includes = ensure_lib_includes(@, defs, n.type)]
    IN  IF n.type = "Literal" THEN EmitTopLiteral(n, st0, level)
        ELSE close_node(
                CASE n.type \in {"Add", "Sub", "Mul", "Div"} ->
                        EmitArith(n, st0, level, FALSE, defs, <<>>, edges, None)
                  [] n.type = "Print" -> EmitPrint(n, st0, level, defs, edges)
                  [] n.type = "Cast" -> EmitCast(n, st0, level, FALSE, <<>>, edges, None)
                  [] n.type = "Call" -> EmitCall(n, st0, level, edges, functions)
                  [] OTHER -> EmitTopOther(n, st0, level, defs, edges),
                n.id, start, None)

\* one pass of the loop of emit_function_def over node n: a Param emits no
\* line, and its entry runs from the next line to the last one emitted
EmitLocalNode(n, st, level, defs, local_edges, edges, function) ==
    LET start == Len(st.code_lines) + 1
    IN  IF n.type = "Param"
        THEN close_node(IF n.id \in DOMAIN st.names THEN st
                        ELSE Bind(st, n.id, local_make_var(st.used, n.id)),
                        n.id, start, function)
        ELSE close_node(
                CASE n.type = "Literal" -> EmitLocalLiteral(n, st, level, function)
                  [] n.type = "Cast" ->
                        EmitCast(n, st, level, TRUE, local_edges, edges, function)
                  [] n.type \in {"Add", "Sub", "Mul", "Div"} ->
                        EmitArith(n, st, level, TRUE, defs, local_edges, edges, function)
                  [] OTHER -> EmitLocalOther(n, st, level, defs, local_edges, edges, function),
                n.id, start, function)

RECURSIVE ParamList(_, _)
\* ', '.join of "type name" over params[1..k]
ParamList(params, k) ==
    IF k = 0 THEN ""
    ELSE ParamList(params, k - 1) \o (IF k > 1 THEN ", " ELSE "")
         \o cpp_type(IF params[k].type = None THEN "auto" ELSE params[k].type)
         \o " " \o params[k].name

\* the signature line of a function
Signature(func) ==
    (IF Falsy(func.returnType) THEN "void" ELSE cpp_type(func.returnType))
    \o " " \o func.name \o "(" \o ParamList(func.params, Len(func.params)) \o ") {"

RECURSIVE MatchByName(_, _, _)
\* the loop "for p in params" over params[1..k]: a parameter takes the first
\* Param node of that properties.name not assigned yet: [names, assigned]
MatchByName(params, k, param_nodes) ==
    IF k = 0 THEN [names |-> <<>>, assigned |-> {}]
    ELSE LET before == MatchByName(params, k - 1, param_nodes)
             fit == {i \in DOMAIN param_nodes :
                        /\ param_nodes[i].name = params[k].name
                        /\ param_nodes[i].id \notin before.assigned}
         IN  IF fit = {} THEN before
             ELSE LET pn == param_nodes[CHOOSE i \in fit : \A j \in fit : i <= j]
                  IN  [names |-> Put(before.names, pn.id, params[k].name),
                       assigned |-> before.assigned \cup {pn.id}]

RECURSIVE AssignByOrder(_, _, _, _, _, _, _)
\* the loop over the Param nodes left, from the j-th on: each takes the next
\* parameter name counted from the first, or a generated name: [names, used]
AssignByOrder(param_nodes, j, params, assigned, pi, names, used) ==
    IF j > Len(param_nodes) THEN [names |-> names, used |-> used]
    ELSE LET pn == param_nodes[j]
         IN  IF pn.id \in assigned
             THEN AssignByOrder(param_nodes, j + 1, params, assigned, pi, names, used)
             ELSE IF pi < Len(params)
             THEN AssignByOrder(param_nodes, j + 1, params, assigned, pi + 1,
                                Put(names, pn.id, params[pi + 1].name), used)
             ELSE LET v == local_make_var(used, pn.id)
                  IN  AssignByOrder(param_nodes, j + 1, params, assigned, pi,
                                    Put(names, pn.id, v.name), v.used)

\* local_var_names and local_used_names when the loop over the nodes starts
ParamNames(func) ==
    LET param_nodes == SelectSeq(func.graph.nodes, LAMBDA n : n.type = "Param")
        matched == MatchByName(func.params, Len(func.params), param_nodes)
    IN  AssignByOrder(param_nodes, 1, func.params, matched.assigned, 0, matched.names, <<>>)

RECURSIVE LibIncludes(_, _, _, _)
\* the include set after ensure_lib_includes over nodes[1..k]
LibIncludes(incs, defs, nodes, k) ==
    IF k = 0 THEN incs
    ELSE ensure_lib_includes(LibIncludes(incs, defs, nodes, k - 1), defs, nodes[k].type)

\* the node a function returns: graph.return, else the last node of the
\* order that is no Param, else None
ReturnId(func, order) ==
    LET rest == {i \in DOMAIN order : order[i].type # "Param"}
    IN  IF ~Falsy(func.graph.return) THEN func.graph.return
        ELSE IF rest = {} THEN None
        ELSE order[CHOOSE i \in rest : \A j \in rest : j <= i].id

\* the return statement of a function and its coarse entry
EmitReturn(func, order, st, level) ==
    LET ret_node == func.name \o "::return"
        st1 == emit_line_with_fragments(st,
                  <<Plain(indent(level) \o "return "),
                    Marked(ExprOf(st.names, ReturnId(func, order)), ret_node, "value"),
                    Plain(";")>>, func.name)
    IN  [st1 EXCEPT !.mapping = Append(@, record_map(ret_node, Len(st1.code_lines),
                                                     Len(st1.code_lines), func.name))]

\* 'iostream' in inc
RECURSIVE ContainsAt(_, _, _)
ContainsAt(text, word, i) ==
    IF i + Len(word) - 1 > Len(text) THEN FALSE
    ELSE SubSeq(text, i, i + Len(word) - 1) = word \/ ContainsAt(text, word, i + 1)

Contains(text, word) == ContainsAt(text, word, 1)

\* the include directives the model draws from, in the order sorted() gives
\* them (by code point: '"' before '<', then letter by letter)
IncludeOrder == <<"\"myiostream.h\"", "<cmath>", "<iostream>", "<string>", "<vector>">>

\* sorted(self.includes)
SortedIncludes(incs) == SelectSeq(IncludeOrder, LAMBDA inc : inc \in incs)

\* an emit_include that walks the set as the interpreter iterates it,
\* without sorted()
emit_include_unsorted(incs) ==
    LET walk == SelectSeq(set_order, LAMBDA inc : inc \in incs)
    IN  [i \in DOMAIN walk |-> "#include " \o walk[i]] \o <<"">>

\* emit_include: one directive per include, then an empty line
emit_include(incs) ==
    [i \in DOMAIN SortedIncludes(incs) |-> "#include " \o SortedIncludes(incs)[i]] \o <<"">>

RECURSIVE LeadingSpaces(_, _)
\* len(text) - len(text.lstrip(' ')), counted from character i on
LeadingSpaces(text, i) ==
    IF i > Len(text) \/ CharAt(text, i) # " " THEN 0 ELSE 1 + LeadingSpaces(text, i + 1)

\* a finalization that ends a coarse entry at the last column of its first
\* line
FinalizeOnStartLine(m, lines) ==
    LET s == m.start_line
    IN  IF s >= 1 /\ s <= Len(lines)
        THEN [m EXCEPT !.start_col = IF @ = NoCol THEN LeadingSpaces(lines[s], 1) + 1 ELSE @,
                       !.end_col = IF @ = NoCol THEN Len(lines[s]) ELSE @]
        ELSE m

\* the first loop of _finalize_mappings on entry m: the columns not set yet
\* become the first non-space column of the start line and the length of
\* the end line
FinalizeEntry(m, lines) ==
    LET s == m.start_line
        e == m.end_line
        m1 == IF s >= 1 /\ s <= Len(lines) /\ m.start_col = NoCol
              THEN [m EXCEPT !.start_col = LeadingSpaces(lines[s], 1) + 1] ELSE m
    IN  IF e >= 1 /\ e <= Len(lines) /\ m1.end_col = NoCol
        THEN [m1 EXCEPT !.end_col = Len(lines[e])] ELSE m1

-----------------------------------------------------------------------------
(* Specification of the emitter: an IR is drawn and CppEmitter(ir,          *)
(* node_defs).emit() runs on it, one node of a scope per step               *)

\* a node with its properties (None: the property is absent)
EmitNodeOf(id, kind, inputs) ==
    [id |-> id, type |-> kind.type, value |-> kind.value, inputs |-> inputs,
     outputs |-> <<>>, targetType |-> kind.targetType, name |-> kind.name]

Kind(type, value, targetType, name) ==
    [type |-> type, value |-> value, targetType |-> targetType, name |-> name]

\* a user function (returnType None: the key is absent)
Function(name, params, returnType, nodes, edges, return) ==
    [name |-> name, params |-> params, returnType |-> returnType,
     graph |-> [nodes |-> nodes, edges |-> edges, return |-> return]]

\* the parameter lists a function is drawn with
ParamLists ==
    {<<>>, <<[name |-> "a", type |-> "number"]>>,
     <<[name |-> "a", type |-> "number"], [name |-> "b", type |-> "number"]>>}

\* the kinds the three nodes of the top level are drawn from: a source, a
\* consumer (Call f names a function that may be defined, Call g does not),
\* a sink (Mystery has no catalog entry)
TopKinds ==
    <<{Kind("Literal", "int", None, None), Kind("Literal", "str", None, None),
       Kind("Add", None, None, None)},
      {Kind("Add", None, None, None), Kind("Call", None, None, "f"),
       Kind("Call", None, None, "g"), Kind("Cast", None, "string", None),
       Kind("Print", None, None, None)},
      {Kind("Print", None, None, None), Kind("Sqrt", None, None, None),
       Kind("Mystery", None, None, None)}>>

\* the kinds the three nodes of a function graph are drawn from
LocalKinds ==
    <<{Kind("Param", None, None, "a"), Kind("Literal", "bool", None, None),
       Kind("Literal", "int", None, None), Kind("Literal", "float", None, None),
       Kind("Literal", "str", None, None), Kind("Literal", None, None, None)},
      {Kind("Param", None, None, None), Kind("Add", None, None, None),
       Kind("Cast", None, "number", None)},
      {Kind("Add", None, None, None), Kind("Return", None, None, None),
       Kind("Sqrt", None, None, None)}>>

\* the node ids of a scope, in node order: plain ones, and three that
\* differ only in characters that sanitize rewrites
PlainIds == <<"L", "A", "P">>
ClashIds == <<"x.y", "x_y", "x_y_1">>

\* longest wiring drawn for a scope of the emitter
MaxEmitEdges == 2

\* the (source, destination) pairs a wiring is drawn from, by place in the
\* node list (0: an id no node carries)
EmitPairs == {<<1, 2>>, <<2, 3>>, <<1, 3>>, <<2, 1>>, <<0, 2>>}

EmitWirings(n) == SeqsUpTo(EmitPairs, n)

IdAt(ids, k) == IF k = 0 THEN "zz" ELSE ids[k]

\* how a wiring is written down: in the inputs lists of the nodes, as
\* positional edges, or as edges that name the declared input port at the
\* place of the edge among those into its destination
WiringStyles == {"inputs", "edges", "ports"}

PortAt(kinds, w, i) ==
    LET ports == DefOf(kinds[w[i][2]].type).inputs
        place == Cardinality({j \in 1..i : w[j][2] = w[i][2]})
    IN  IF place <= Len(ports) THEN ports[place].name ELSE None

ScopeEdges(ids, kinds, w, style) ==
    IF style = "inputs" THEN <<>>
    ELSE [i \in DOMAIN w |->
            PortEdge(IdAt(ids, w[i][1]), IdAt(ids, w[i][2]),
                     IF style = "ports" THEN PortAt(kinds, w, i) ELSE None, None)]

RECURSIVE SourcesInto(_, _, _, _)
SourcesInto(ids, w, k, i) ==
    IF i > Len(w) THEN <<>>
    ELSE (IF w[i][2] = k THEN <<IdAt(ids, w[i][1])>> ELSE <<>>)
         \o SourcesInto(ids, w, k, i + 1)

ScopeNodes(ids, kinds, w, style) ==
    [k \in DOMAIN kinds |->
        EmitNodeOf(ids[k], kinds[k],
                   IF style = "inputs" THEN SourcesInto(ids, w, k, 1) ELSE <<>>)]

KindTuples(pools) == {<<k1, k2, k3>> : k1 \in pools[1], k2 \in pools[2], k3 \in pools[3]}

\* the IRs whose top level is drawn: no function, or the function f that a
\* Call names, with one of the parameter lists and an empty graph
MainIRs(n) ==
    UNION {{[nodes |-> ScopeNodes(PlainIds, kinds, w, style),
             edges |-> ScopeEdges(PlainIds, kinds, w, style),
             functions |-> fs, imports |-> <<>>] :
                w \in EmitWirings(n), style \in WiringStyles,
                fs \in IF kinds[2].name = "f"
                       THEN {<<>>} \cup {<<Function("f", ps, "number", <<>>, <<>>, None)>> :
                                            ps \in ParamLists}
                       ELSE {<<>>}} :
           kinds \in KindTuples(TopKinds)}

\* the IRs whose three nodes carry the clashing ids
ClashIRs ==
    {[nodes |-> ScopeNodes(ClashIds, kinds, <<>>, "inputs"), edges |-> <<>>,
      functions |-> <<>>, imports |-> <<>>] : kinds \in KindTuples(TopKinds)}

\* the IRs whose function graph is drawn, under an empty top level
FunctionIRs(n) ==
    {[nodes |-> <<>>, edges |-> <<>>,
      functions |-> <<Function("f", ps, rt, ScopeNodes(ids, kinds, w, style),
                               ScopeEdges(ids, kinds, w, style), None)>>,
      imports |-> imports] :
        kinds \in KindTuples(LocalKinds), w \in EmitWirings(n), style \in {"inputs", "edges"},
        ps \in ParamLists \ {<<>>}, rt \in {"number"}, ids \in {PlainIds},
        imports \in {<<>>, <<"\"myiostream.h\"">>}}

\* the IRs whose top level and function graph share the ids L and A: the top
\* level wires L into A, the function graph wires its own A or leaves it
\* without operands
SharedIdIRs ==
    {[nodes |-> ScopeNodes(<<"L", "A">>, <<Kind("Add", None, None, None),
                                           Kind("Add", None, None, None)>>, tw, tstyle),
      edges |-> ScopeEdges(<<"L", "A">>, <<Kind("Add", None, None, None),
                                          Kind("Add", None, None, None)>>, tw, tstyle),
      functions |-> <<Function("f", <<[name |-> "a", type |-> "number"]>>, "number",
                               ScopeNodes(<<"L", "A">>, <<k1, Kind("Add", None, None, None)>>,
                                          fw, fstyle),
                               ScopeEdges(<<"L", "A">>, <<k1, Kind("Add", None, None, None)>>,
                                          fw, fstyle), None)>>,
      imports |-> <<>>] :
        tw \in {<<<<1, 2>>>>, <<<<1, 2>>, <<1, 2>>>>}, tstyle \in {"edges", "ports"},
        k1 \in {Kind("Param", None, None, "a"), Kind("Add", None, None, None),
                Kind("Literal", "int", None, None)},
        fw \in {<<>>, <<<<1, 2>>>>}, fstyle \in {"inputs", "edges"}}

\* the IRs whose node P has one to n incoming edges, each naming port a,
\* port b or no port
MixedEdgeIRs(n) ==
    {[nodes |-> ScopeNodes(PlainIds, <<Kind("Add", None, None, None),
                                       Kind("Add", None, None, None),
                                       Kind("Add", None, None, None)>>, <<>>, "edges"),
      edges |-> es, functions |-> <<>>, imports |-> <<>>] :
        es \in SeqsUpTo({PortEdge(frm, "P", toPort, None) :
                            frm \in {"L", "A"}, toPort \in {None, "a", "b"}},
                        n) \ {<<>>}}

InitEmit ==
    /\ ir \in MainIRs(MaxEmitEdges) \cup ClashIRs \cup FunctionIRs(MaxEmitEdges) \cup SharedIdIRs
              \cup MixedEdgeIRs(MaxEmitEdges)
    /\ self_node_defs \in {<<>>, node_defs}
    /\ includes = Range(ir.imports)
    /\ code_lines = <<>>
    /\ indent_level = 0
    /\ var_names = <<>>
    /\ _used_names = <<>>
    /\ mapping = <<>>
    /\ epc = "start"
    /\ fidx = 0
    /\ ordered = <<>>
    /\ oi = 0
    /\ local_var_names = <<>>
    /\ local_used_names = <<>>
    /\ NormIdle
    /\ TopoIdle
    /\ TypesIdle
    /\ ValIdle
    /\ MapIdle
    /\ RestIdle

notEmitVars == <<ir, normVars, topoVars, typeVars, valVars, mapVars, restVars, self_node_defs>>

\* the emitter state of the top level / of the function being emitted
TopState ==
    [includes |-> includes, code_lines |-> code_lines, mapping |-> mapping,
     names |-> var_names, used |-> _used_names, raised |-> FALSE]

LocalState ==
    [includes |-> includes, code_lines |-> code_lines, mapping |-> mapping,
     names |-> local_var_names, used |-> local_used_names, raised |-> FALSE]

RECURSIVE AllLibIncludes(_, _, _)
\* the first loop of emit(): ensure_lib_includes over the nodes of the graphs
\* of functions[1..k]
AllLibIncludes(incs, functions, k) ==
    IF k = 0 THEN incs
    ELSE LibIncludes(AllLibIncludes(incs, functions, k - 1), self_node_defs,
                     functions[k].graph.nodes, Len(functions[k].graph.nodes))

\* emit(), up to and with emit_include(): the lib includes of every node,
\* <iostream> unless an include mentions iostream, the include block
EmitIncludes ==
    /\ epc = "start"
    /\ LET libs == LibIncludes(AllLibIncludes(includes, ir.functions, Len(ir.functions)),
                               self_node_defs, ir.nodes, Len(ir.nodes))
           incs == IF \E inc \in libs : Contains(inc, "iostream") THEN libs
                   ELSE libs \cup {"<iostream>"}
       IN  /\ includes' = incs
           /\ code_lines' = code_lines \o emit_include(incs)
    /\ fidx' = 1
    /\ epc' = IF ir.functions # <<>> THEN "function" ELSE "main"
    /\ UNCHANGED <<notEmitVars, indent_level, var_names, _used_names, mapping, ordered, oi,
                   local_var_names, local_used_names>>

\* emit_function_def up to its loop over the nodes: the signature, the names
\* of the Param nodes, the order (graph order under a warning when the sort
\* fails)
BeginFunction ==
    /\ epc = "function"
    /\ LET func == ir.functions[fidx]
           sorted == topological_sort(func.graph.nodes, func.graph.edges)
           names == ParamNames(func)
       IN  /\ includes' = LibIncludes(includes, self_node_defs, func.graph.nodes,
                                      Len(func.graph.nodes))
           /\ indent_level' = indent_level + 1
           /\ local_var_names' = names.names
           /\ local_used_names' = names.used
           /\ IF sorted.kind = "ok"
              THEN /\ ordered' = sorted.order
                   /\ code_lines' = Append(code_lines, Signature(func))
              ELSE /\ ordered' = func.graph.nodes
                   /\ code_lines' = code_lines \o
                        <<Signature(func),
                          indent(indent_level') \o "// Warning: topological sort failed inside function, using graph order">>
    /\ oi' = 1
    /\ epc' = "fnodes"
    /\ UNCHANGED <<notEmitVars, var_names, _used_names, mapping, fidx>>

\* one pass of the loop of emit_function_def
EmitFunctionNode ==
    /\ epc = "fnodes"
    /\ oi <= Len(ordered)
    /\ LET func == ir.functions[fidx]
           st == EmitLocalNode(ordered[oi], LocalState, indent_level, self_node_defs,
                               func.graph.edges, ir.edges, func.name)
       IN  /\ includes' = st.includes
           /\ code_lines' = st.code_lines
           /\ mapping' = st.mapping
           /\ local_var_names' = st.names
           /\ local_used_names' = st.used
    /\ oi' = oi + 1
    /\ UNCHANGED <<notEmitVars, indent_level, var_names, _used_names, epc, fidx, ordered>>

\* the end of emit_function_def: the return statement of a function that
\* returns a value, the closing brace, an empty line; then the next function
EndFunction ==
    /\ epc = "fnodes"
    /\ oi > Len(ordered)
    /\ LET func == ir.functions[fidx]
           st == IF ~Falsy(func.returnType) /\ func.returnType # "void"
                 THEN EmitReturn(func, ordered, LocalState, indent_level)
                 ELSE LocalState
       IN  /\ code_lines' = st.code_lines \o <<"}", "">>
           /\ mapping' = st.mapping
    /\ indent_level' = indent_level - 1
    /\ local_var_names' = <<>>
    /\ local_used_names' = <<>>
    /\ ordered' = <<>>
    /\ oi' = 0
    /\ fidx' = fidx + 1
    /\ epc' = IF fidx < Len(ir.functions) THEN "function" ELSE "main"
    /\ UNCHANGED <<notEmitVars, includes, var_names, _used_names>>

\* emit_main and emit_from_graph up to the loop over the nodes
BeginMain ==
    /\ epc = "main"
    /\ LET sorted == topological_sort(ir.nodes, ir.edges)
       IN  /\ indent_level' = indent_level + 1
           /\ IF sorted.kind = "ok"
              THEN /\ ordered' = sorted.order
                   /\ code_lines' = Append(code_lines, "int main() {")
              ELSE /\ ordered' = ir.nodes
                   /\ code_lines' = code_lines \o
                        <<"int main() {",
                          indent(indent_level') \o "// Warning: topological sort failed, using graph order">>
    /\ oi' = 1
    /\ epc' = "nodes"
    /\ UNCHANGED <<notEmitVars, includes, var_names, _used_names, mapping, fidx,
                   local_var_names, local_used_names>>

\* one pass of the loop of emit_from_graph; the NameError of the Literal
\* branch ends emit()
EmitNode ==
    /\ epc = "nodes"
    /\ oi <= Len(ordered)
    /\ LET st == EmitTopNode(ordered[oi], TopState, indent_level, self_node_defs,
                             ir.edges, ir.functions)
       IN  /\ includes' = st.includes
           /\ code_lines' = st.code_lines
           /\ mapping' = st.mapping
           /\ var_names' = st.names
           /\ _used_names' = st.used
           /\ epc' = IF st.raised THEN "raised" ELSE epc
    /\ oi' = oi + 1
    /\ UNCHANGED <<notEmitVars, indent_level, fidx, ordered, local_var_names,
                   local_used_names>>

\* the end of emit_main
EndMain ==
    /\ epc = "nodes"
    /\ oi > Len(ordered)
    /\ code_lines' = code_lines \o <<indent(indent_level) \o "return 0;", "}">>
    /\ indent_level' = indent_level - 1
    /\ epc' = "finalize"
    /\ UNCHANGED <<notEmitVars, includes, var_names, _used_names, mapping, fidx, ordered, oi,
                   local_var_names, local_used_names>>

\* _finalize_mappings, and emit() returns the text
FinalizeMappings ==
    /\ epc = "finalize"
    /\ mapping' = [i \in DOMAIN mapping |-> FinalizeEntry(mapping[i], code_lines)]
    /\ epc' = "done"
    /\ UNCHANGED <<notEmitVars, includes, code_lines, indent_level, var_names, _used_names,
                   fidx, ordered, oi, local_var_names, local_used_names>>

NextEmit ==
    \/ EmitIncludes
    \/ BeginFunction
    \/ EmitFunctionNode
    \/ EndFunction
    \/ BeginMain
    \/ EmitNode
    \/ EndMain
    \/ FinalizeMappings

SpecEmit == InitEmit /\ [][NextEmit]_vars

-----------------------------------------------------------------------------
(* map_errors_to_nodes: the diagnostics of the compiler are attributed to   *)
(* mapping entries                                                          *)

\* longest mapping and longest list of diagnostics drawn
MaxMapEntries == 3
MaxMapErrors == 2

\* a diagnostic as parse_gpp_errors returns it (has_col FALSE: col is None)
Diagnostic(line, has_col, col) == [line |-> line, has_col |-> has_col, col |-> col]

\* "sline and eline and ...": None and 0 are false
Truthy(x) == x # 0

\* the test of the first loop: entry m encloses the line and the column
ColMatch(m, err) ==
    /\ Truthy(m.start_line) /\ Truthy(m.end_line)
    /\ m.start_line <= err.line /\ err.line <= m.end_line
    /\ Truthy(m.start_col) /\ Truthy(m.end_col)
    /\ m.start_col <= err.col /\ err.col <= m.end_col

\* the test of the fallback: the lines of entry m contain the line
LineMatch(m, err) ==
    /\ Truthy(m.start_line) /\ Truthy(m.end_line)
    /\ m.start_line <= err.line /\ err.line <= m.end_line

\* a key of the column matches that compares the column span first
ColKeyColumnsFirst(m) == <<m.end_col - m.start_col, m.end_line - m.start_line>>

\* the sort key of the column matches
ColKey(m) == <<m.end_line - m.start_line, m.end_col - m.start_col>>

\* a key of the line matches that puts the largest range first
LineKeyLargest(m) == <<m.start_line - m.end_line>>

\* the sort key of the line matches
LineKey(m) == <<m.end_line - m.start_line>>

\* tuples of integers in the order Python compares them
RECURSIVE TupleLess(_, _)
TupleLess(k1, k2) ==
    IF k1 = <<>> \/ k2 = <<>> THEN k1 = <<>> /\ k2 # <<>>
    ELSE Head(k1) < Head(k2) \/ (Head(k1) = Head(k2) /\ TupleLess(Tail(k1), Tail(k2)))

\* list.sort(key) followed by [0]: the sort is stable, so the first of the
\* entries with the least key
SortedFirst(ms, keys) ==
    LET least == {i \in DOMAIN ms : \A j \in DOMAIN ms : ~TupleLess(keys[j], keys[i])}
    IN  ms[CHOOSE i \in least : \A j \in least : i <= j]

Attributed(err, node) ==
    [error |-> err, node_id |-> node.node_id, function |-> node.function,
     port |-> node.port]

Unattributed(err) ==
    [error |-> err, node_id |-> None, function |-> None, port |-> None]

\* one pass of the loop over the diagnostics
map_error(err, entries) ==
    LET colMatches == IF err.has_col
                      THEN SelectSeq(entries, LAMBDA m : ColMatch(m, err))
                      ELSE <<>>
        lineMatches == SelectSeq(entries, LAMBDA m : LineMatch(m, err))
    IN  IF colMatches # <<>>
        THEN Attributed(err, SortedFirst(colMatches,
                                 [i \in DOMAIN colMatches |-> ColKey(colMatches[i])]))
        ELSE IF lineMatches # <<>>
        THEN Attributed(err, SortedFirst(lineMatches,
                                 [i \in DOMAIN lineMatches |-> LineKey(lineMatches[i])]))
        ELSE Unattributed(err)

-----------------------------------------------------------------------------
(* Specification of the diagnostic mapper: a mapping and a list of          *)
(* diagnostics are drawn and map_errors_to_nodes runs on them               *)

\* the entries a mapping is drawn from, as emit() leaves them: the coarse
\* entry of a one-line node and the spans of its two ports, the coarse entry
\* of a node of three lines, a second node on the line of the first, the
\* entry of a Param (recorded from the line after the last to the last)
\* and a coarse entry whose columns were never filled in
MapEntryPool ==
    {MapEntry("add1", None, 2, 2, 1, 4, None),
     MapEntry("add1", None, 2, 2, 2, 2, "a"),
     MapEntry("add1", None, 2, 2, 4, 4, "b"),
     MapEntry("p1", None, 1, 3, 1, 3, None),
     MapEntry("c1", "f", 2, 2, 2, 2, "arg0"),
     MapEntry("a", "f", 3, 2, 1, 4, None),
     MapEntry("r1", "f", 3, 3, NoCol, NoCol, None)}

\* the diagnostics drawn: with and without a column, on lines 1 to 3
DiagnosticPool ==
    {Diagnostic(2, TRUE, 2), Diagnostic(2, TRUE, 3), Diagnostic(2, FALSE, 0),
     Diagnostic(1, TRUE, 4), Diagnostic(3, TRUE, 1), Diagnostic(3, FALSE, 0)}

InitMap ==
    /\ mapping \in SeqsUpTo(MapEntryPool, MaxMapEntries)
    /\ errors \in SeqsUpTo(DiagnosticPool, MaxMapErrors)
    /\ mapped = <<>>
    /\ mpc = "loop"
    /\ ir = [nodes |-> <<>>, edges |-> <<>>]
    /\ NormIdle
    /\ TopoIdle
    /\ TypesIdle
    /\ ValIdle
    /\ EmitIdle
    /\ RestIdle

\* "for err in errors": the next diagnostic is attributed
MapError ==
    /\ mpc = "loop"
    /\ Len(mapped) < Len(errors)
    /\ mapped' = Append(mapped, map_error(errors[Len(mapped) + 1], mapping))
    /\ UNCHANGED <<ir, normVars, topoVars, typeVars, valVars, emitVars, restVars, errors, mpc>>

\* "return mapped"
ReturnMapped ==
    /\ mpc = "loop"
    /\ Len(mapped) = Len(errors)
    /\ mpc' = "done"
    /\ UNCHANGED <<ir, normVars, topoVars, typeVars, valVars, emitVars, restVars, errors, mapped>>

NextMap == MapError \/ ReturnMapped

SpecMap == InitMap /\ [][NextMap]_vars

-----------------------------------------------------------------------------
(* Specification of emit_line_with_fragments: an emitter that has emitted   *)
(* some lines is handed a list of fragments                                 *)

\* longest list of fragments drawn
MaxFragments == 3

\* the fragments drawn: unmarked text, an unmarked empty text, the same text
\* marked for two ports of one node, a marked empty text, a marked text of
\* two characters
FragmentPool ==
    {Plain("ab"), Plain(""), Marked("x", "n1", "a"), Marked("x", "n1", "b"),
     Marked("", "n2", None), Marked("yz", "n2", "out")}

InitFrag ==
    /\ code_lines \in {<<>>, <<"#include <iostream>", "">>}
    /\ mapping \in {<<>>, <<MapEntry("n0", None, 1, 1, 1, 8, "out")>>}
    /\ frags = <<>>
    /\ returned = 0
    /\ ir = [nodes |-> <<>>, edges |-> <<>>]
    /\ self_node_defs = <<>>
    /\ includes = {}
    /\ indent_level = 0
    /\ var_names = <<>>
    /\ _used_names = <<>>
    /\ epc = "idle"
    /\ fidx = 0
    /\ ordered = <<>>
    /\ oi = 0
    /\ local_var_names = <<>>
    /\ local_used_names = <<>>
    /\ NormIdle
    /\ TopoIdle
    /\ TypesIdle
    /\ ValIdle
    /\ MapIdle
    /\ RunIdle
    /\ DrvIdle
    /\ TwiceIdle

\* one call emit_line_with_fragments(fragments, function)
CallEmitLine ==
    /\ returned = 0
    /\ \E fragments \in SeqsUpTo(FragmentPool, MaxFragments), function \in {None, "f"} :
          LET st == emit_line_with_fragments(
                        [code_lines |-> code_lines, mapping |-> mapping], fragments, function)
          IN  /\ code_lines' = st.code_lines
              /\ mapping' = st.mapping
              /\ frags' = fragments
              /\ returned' = Len(st.code_lines)
    /\ UNCHANGED <<ir, normVars, topoVars, typeVars, valVars, mapVars, self_node_defs,
                   includes, indent_level, var_names, _used_names, epc, fidx, ordered, oi,
                   local_var_names, local_used_names, runVars, drvVars, twiceVars>>

NextFrag == CallEmitLine

SpecFrag == InitFrag /\ [][NextFrag]_vars

-----------------------------------------------------------------------------
(* The sandbox: compile_in_container.py runs inside a container that         *)
(* docker_runner.py creates, starts, waits for, and removes                  *)

\* the longest time a program needs, and the longest timeout drawn (ticks)
MaxRunTime == 3
MaxTimeout == 2

\* exit_code = None
NoExitCode == -1

\* result = None
NoResult == [success |-> FALSE, error |-> "unset"]

Failure(error) == [success |-> FALSE, error |-> error]

Min(a, b) == IF a <= b THEN a ELSE b

\* compile_ir_to_bin(ir, node_defs, tmpdir, timeout): the object returned
\* for a request whose C++ compiles or not and whose program needs
\* j.needs ticks under the timeout j.request_timeout
compile_ir_to_bin(j) ==
    IF ~j.compile_ok THEN Failure("compile")
    ELSE IF j.needs > j.request_timeout THEN Failure("timeout")
    ELSE [success |-> TRUE, error |-> None]

\* how long the container runs when nobody stops it: the program, cut at the
\* timeout of the request (emission and compilation take no tick)
ContainerTime(j) == IF j.compile_ok THEN Min(j.needs, j.request_timeout) ELSE 0

\* output.json absent, cut short by a kill, or written whole
Absent == [written |-> "absent", obj |-> NoResult]
Partial == [written |-> "partial", obj |-> NoResult]
Whole(obj) == [written |-> "whole", obj |-> obj]

InitRun ==
    /\ rpc = "create"
    /\ job \in [compile_ok : BOOLEAN, needs : 1..MaxRunTime, request_timeout : 1..MaxTimeout]
    /\ timeout \in 1..MaxTimeout
    /\ container = "none"
    /\ output_json = Absent
    /\ docker_calls = <<>>
    /\ finished = FALSE
    /\ exit_code = NoExitCode
    /\ result = NoResult
    /\ printed = <<>>
    /\ ir = [nodes |-> <<>>, edges |-> <<>>]
    /\ NormIdle
    /\ TopoIdle
    /\ TypesIdle
    /\ ValIdle
    /\ EmitIdle
    /\ mapping = <<>>
    /\ MapIdle
    /\ FragIdle
    /\ DrvIdle
    /\ TwiceIdle

notRunVars == <<ir, normVars, topoVars, typeVars, valVars, emitVars, mapVars, fragVars,
                drvVars, twiceVars, job, timeout>>

\* "docker create": the call raises (no docker on the PATH), times out,
\* fails, prints no id, or creates the container
CreateContainer ==
    /\ rpc = "create"
    /\ docker_calls' = Append(docker_calls, "create")
    /\ \/ /\ rpc' = "raised"
          /\ UNCHANGED <<container, printed>>
       \/ /\ \E error \in {"create_timeout", "create_failed", "no_container_id"} :
                printed' = Append(printed, Failure(error))
          /\ rpc' = "exit"
          /\ UNCHANGED container
       \/ /\ container' = "created"
          /\ rpc' = "start"
          /\ UNCHANGED printed
    /\ UNCHANGED <<notRunVars, output_json, finished, exit_code, result>>

\* "docker start": on failure the container is removed and the failure printed
StartContainer ==
    /\ rpc = "start"
    /\ \/ /\ docker_calls' = Append(docker_calls, "start")
          /\ container' = "running"
          /\ rpc' = "wait"
          /\ UNCHANGED printed
       \/ /\ docker_calls' = docker_calls \o <<"start", "rm">>
          /\ container' = "removed"
          /\ printed' = Append(printed, Failure("start_failed"))
          /\ rpc' = "exit"
    /\ UNCHANGED <<notRunVars, output_json, finished, exit_code, result>>

\* "docker wait" under the timeout: the container ends in time and leaves
\* its output.json; or the wait times out and the container is killed, its
\* output.json unwritten or cut short (written whole when the two ends
\* coincide); or "docker wait" fails; or starting it raises and the status
\* is polled instead
WaitContainer ==
    /\ rpc = "wait"
    /\ LET ends == ContainerTime(job)
           obj == Whole(compile_ir_to_bin(job))
           left == {Absent, Partial} \cup (IF ends = timeout THEN {obj} ELSE {})
       IN  \/ /\ ends <= timeout
              /\ docker_calls' = Append(docker_calls, "wait")
              /\ container' = "exited"
              /\ output_json' = obj
              /\ finished' = TRUE
              /\ exit_code' = 0
           \/ /\ ends >= timeout
              /\ docker_calls' = docker_calls \o <<"wait", "kill">>
              /\ container' = "killed"
              /\ output_json' \in left
              /\ UNCHANGED <<finished, exit_code>>
           \/ /\ docker_calls' = Append(docker_calls, "wait")
              /\ UNCHANGED <<container, output_json, finished, exit_code>>
           \/ /\ ends < timeout
              /\ docker_calls' = Append(docker_calls, "inspect")
              /\ container' = "exited"
              /\ output_json' = obj
              /\ finished' = TRUE
              /\ exit_code' = 0
           \/ /\ ends >= timeout
              /\ docker_calls' = docker_calls \o <<"inspect", "kill">>
              /\ container' = "killed"
              /\ output_json' \in left
              /\ UNCHANGED <<finished, exit_code>>
    /\ rpc' = "logs"
    /\ UNCHANGED <<notRunVars, result, printed>>

\* "docker logs" with text=True: the output decodes, or the call raises
CollectLogs ==
    /\ rpc = "logs"
    /\ docker_calls' = Append(docker_calls, "logs")
    /\ rpc' \in {"read", "raised"}
    /\ UNCHANGED <<notRunVars, container, output_json, finished, exit_code, result, printed>>

\* "Attempt to read output.json from input_dir"
ReadOutput ==
    /\ rpc = "read"
    /\ result' = CASE output_json.written = "absent" -> Failure("no_output")
                   [] output_json.written = "partial" -> Failure("bad_output")
                   [] OTHER -> output_json.obj
    /\ rpc' = "remove"
    /\ UNCHANGED <<notRunVars, container, output_json, docker_calls, finished, exit_code,
                   printed>>

\* "Cleanup container"
RemoveContainer ==
    /\ rpc = "remove"
    /\ docker_calls' = Append(docker_calls, "rm")
    /\ container' = "removed"
    /\ rpc' = "print"
    /\ UNCHANGED <<notRunVars, output_json, finished, exit_code, result, printed>>

\* "Attach metadata" and print
PrintResult ==
    /\ rpc = "print"
    /\ printed' = Append(printed, [success |-> result.success, error |-> result.error,
                                   _finished |-> finished, _exit_code |-> exit_code])
    /\ rpc' = "exit"
    /\ UNCHANGED <<notRunVars, container, output_json, docker_calls, finished, exit_code,
                   result>>

NextRun ==
    \/ CreateContainer
    \/ StartContainer
    \/ WaitContainer
    \/ CollectLogs
    \/ ReadOutput
    \/ RemoveContainer
    \/ PrintResult

SpecRun == InitRun /\ [][NextRun]_vars

\* the script is one sequential process: a step that can be taken is taken
SpecRunFair == SpecRun /\ WF_vars(NextRun)

-----------------------------------------------------------------------------
(* Properties of normalize_ir (SpecNorm) *)

\* C1: normalize_ir is idempotent: applying it twice yields the same edges
\* and the same per-node inputs and outputs as applying it once.
\* (Refuted: an inputs list with a duplicate or unknown source is kept by the
\* first application, which only synthesizes the edges, and rewritten by the
\* second, which finds the edge list non-empty.)
C1_NormalizeIdempotent == normCount >= 2 => ir = irOnce

\* where the first normalize_ir took the branch without edges and still
\* changed something that the second one changes again
C1_SecondRunRewritesInputs ==
    /\ normCount = 2
    /\ ir.edges = irOnce.edges
    /\ \E i \in DOMAIN ir.nodes : ir.nodes[i].inputs # irOnce.nodes[i].inputs

\* what is left of C1: a second normalize_ir changes nothing but inputs
\* lists, which it shortens
C1_OnlyInputsShrink ==
    (normCount >= 2 /\ ir # irOnce) =>
        /\ ir.edges = irOnce.edges
        /\ \A i \in DOMAIN ir.nodes :
              /\ ir.nodes[i].outputs = irOnce.nodes[i].outputs
              /\ Len(ir.nodes[i].inputs) <= Len(irOnce.nodes[i].inputs)

\* C2: after normalize_ir, an edge u -> v is in ir.edges if and only if
\* u is in v.inputs and v is in u.outputs.
C2_EdgesAgreeWithInputsOutputs ==
    normCount >= 1 =>
        \A u \in AllIds, v \in AllIds :
            (\E i \in DOMAIN ir.edges : ir.edges[i].from = u /\ ir.edges[i].to = v)
            <=> (/\ u \in NodeIdsOf(ir.nodes)
                 /\ v \in NodeIdsOf(ir.nodes)
                 /\ u \in Range(NodeById(ir.nodes, v).inputs)
                 /\ v \in Range(NodeById(ir.nodes, u).outputs))

\* what is left of C2: the agreement holds whenever the normalized edge list
\* names known nodes only
C2_AgreeWhenEndpointsKnown ==
    (normCount >= 1 /\ \A i \in DOMAIN ir.edges :
            ir.edges[i].from \in NodeIdsOf(ir.nodes) /\ ir.edges[i].to \in NodeIdsOf(ir.nodes))
        => \A u \in NodeIdsOf(ir.nodes), v \in NodeIdsOf(ir.nodes) :
            (\E i \in DOMAIN ir.edges : ir.edges[i].from = u /\ ir.edges[i].to = v)
            <=> (/\ u \in Range(NodeById(ir.nodes, v).inputs)
                 /\ v \in Range(NodeById(ir.nodes, u).outputs))

\* C3: after normalize_ir, in both branches, ir.edges contains no edge whose
\* from or to is not the id of a node of ir.nodes.
C3_NoUnknownEndpointAfterNormalize ==
    normCount >= 1 =>
        \A i \in DOMAIN ir.edges :
            ir.edges[i].from \in NodeIdsOf(ir.nodes) /\ ir.edges[i].to \in NodeIdsOf(ir.nodes)

-----------------------------------------------------------------------------
(* Properties of topological_sort (SpecTopo) *)

\* the graph topological_sort is given: the pairs of the edge list, or of the
\* nodes' inputs lists when the edge list is empty
GraphEdges ==
    IF ir.edges # <<>>
    THEN {<<ir.edges[i].from, ir.edges[i].to>> : i \in DOMAIN ir.edges}
    ELSE UNION {{<<inp, ir.nodes[i].id>> : inp \in Range(ir.nodes[i].inputs)} :
                    i \in DOMAIN ir.nodes}

AllEndpointsKnown ==
    \A e \in GraphEdges : e[1] \in NodeIdsOf(ir.nodes) /\ e[2] \in NodeIdsOf(ir.nodes)

RECURSIVE ReachIn(_, _)
\* the nodes reached from u by a path of 1..k edges
ReachIn(u, k) ==
    IF k = 0 THEN {}
    ELSE LET near == ReachIn(u, k - 1)
         IN  near \cup {e[2] : e \in {g \in GraphEdges : g[1] = u \/ g[1] \in near}}

HasCycle == \E u \in NodeIdsOf(ir.nodes) : u \in ReachIn(u, Len(ir.nodes))

Pos(x) == IndexOf(tresult.order, x)

NodeIdx(x) == CHOOSE i \in DOMAIN ir.nodes : ir.nodes[i].id = x

\* C4: when topological_sort returns normally, the result holds each node
\* exactly once and, for every edge u -> v of the graph, u before v.
C4_SortIsTopologicalPermutation ==
    tresult.kind = "ok" =>
        /\ Len(tresult.order) = Len(ir.nodes)
        /\ \A n \in NodeIdsOf(ir.nodes) :
              Cardinality({i \in DOMAIN tresult.order : tresult.order[i] = n}) = 1
        /\ \A e \in GraphEdges : Pos(e[1]) < Pos(e[2])

\* a sort that had to move a node: the last node of the list feeds the first
C4_SortedAgainstListOrder ==
    /\ tresult.kind = "ok"
    /\ <<"C", "A">> \in GraphEdges
    /\ Cardinality(GraphEdges) >= 2

\* C5: topological_sort raises the Cycle error if and only if the graph has a
\* directed cycle (an edge naming an unknown node is rejected by build_adj
\* before the sort starts, with the unknown-node error).
C5_CycleIffCyclic ==
    tpc = "done" => ((tresult.kind = "Cycle") <=> (AllEndpointsKnown /\ HasCycle))

\* the two-node cycle is rejected
C5_TwoNodeCycleRejected ==
    /\ tresult.kind = "Cycle"
    /\ GraphEdges = {<<"A", "B">>, <<"B", "A">>}

\* a self-loop is rejected, too
C5_SelfLoopRejected ==
    /\ tresult.kind = "Cycle"
    /\ GraphEdges = {<<"B", "B">>}

\* parallel duplicate edges between one pair of nodes are accepted
C5_ParallelEdgesAccepted ==
    /\ tresult.kind = "ok"
    /\ Len(ir.edges) = 3
    /\ GraphEdges = {<<"A", "B">>}

Preds(m) == {e[1] : e \in {g \in GraphEdges : g[2] = m}}

\* the predecessor whose pop made m ready: the one popped last
Releaser(m) == CHOOSE u \in Preds(m) : \A w \in Preds(m) : Pos(w) <= Pos(u)

\* m1 and m2 become ready at the same step
ReadyTogether(m1, m2) ==
    \/ Preds(m1) = {} /\ Preds(m2) = {}
    \/ Preds(m1) # {} /\ Preds(m2) # {} /\ Releaser(m1) = Releaser(m2)

\* the place, among the connections, of the last one from n to m
LastConn(n, m) ==
    LET cs == ConnList(ir.nodes, ir.edges)
        at == {i \in DOMAIN cs : cs[i].from = n /\ cs[i].to = m}
    IN  CHOOSE i \in at : \A j \in at : j <= i

\* C6 as stated: among nodes that become ready at the same step, the node
\* earlier in the input node list is earlier in the output, whatever the
\* order of the edge list.
C6_TiesByNodeListOrder ==
    tresult.kind = "ok" =>
        \A m1 \in NodeIdsOf(ir.nodes), m2 \in NodeIdsOf(ir.nodes) :
            (ReadyTogether(m1, m2) /\ NodeIdx(m1) < NodeIdx(m2)) => Pos(m1) < Pos(m2)

\* C6 as amended: the initially ready nodes come out in node-list order;
\* successors released by the same predecessor come out in the order of their
\* releasing edges (the last edge from that predecessor to each) in the edge
\* list, which is node-list order when the edge list is empty and the
\* connections are read from the nodes' inputs lists.
C6_TiesByQueueOrder ==
    tresult.kind = "ok" =>
        \A m1 \in NodeIdsOf(ir.nodes), m2 \in NodeIdsOf(ir.nodes) :
            /\ (Preds(m1) = {} /\ Preds(m2) = {} /\ NodeIdx(m1) < NodeIdx(m2))
                    => Pos(m1) < Pos(m2)
            /\ (/\ Preds(m1) # {} /\ Preds(m2) # {} /\ m1 # m2
                /\ Releaser(m1) = Releaser(m2)
                /\ LastConn(Releaser(m1), m1) < LastConn(Releaser(m2), m2))
                    => Pos(m1) < Pos(m2)
            /\ (ir.edges = <<>> /\ ReadyTogether(m1, m2) /\ NodeIdx(m1) < NodeIdx(m2))
                    => Pos(m1) < Pos(m2)

\* one predecessor releases two successors against the node-list order
C6_ReleasedInEdgeOrder ==
    /\ tresult.kind = "ok"
    /\ ir.edges = <<Edge("A", "C"), Edge("A", "B")>>
    /\ tresult.order = <<"A", "C", "B">>

-----------------------------------------------------------------------------
(* Properties of the type lattice (SpecTypes) *)

\* the canonical family of a type name, as a table: number, double and float
\* name double (in any spelling of capitals); any, auto and a missing name
\* name any; every other name is its own family
FamilyOf(t) ==
    CASE t \in {"number", "double", "float", "Number"} -> "double"
      [] t \in {"int", "INT"} -> "int"
      [] t = "string" -> "string"
      [] t = "bool" -> "bool"
      [] t \in {"any", "auto", "", None} -> "any"
      [] t \in {"vec3", "Vec3"} -> "vec3"

Assignable(e, a) ==
    \/ e = "any"
    \/ a = "any"
    \/ e = a
    \/ e = "double" /\ a = "int"

\* C7: _is_compatible(E, A) is true exactly when canonical(E) = any, or
\* canonical(A) = any, or canonical(E) = canonical(A), or canonical(E) =
\* double and canonical(A) = int; expected double / actual int is accepted
\* and expected int / actual double is rejected.
C7_AssignabilityFollowsLattice ==
    compatible # <<>> =>
        /\ compatible[1] <=> Assignable(FamilyOf(arg_expected), FamilyOf(arg_actual))
        /\ (arg_expected = "double" /\ arg_actual = "int") => compatible[1]
        /\ (arg_expected = "int" /\ arg_actual = "double") => ~compatible[1]

\* the narrowing pair has been compared, and rejected
C7_NarrowingRejected ==
    /\ arg_expected = "int"
    /\ arg_actual = "double"
    /\ compatible = <<FALSE>>

-----------------------------------------------------------------------------
(* Properties of validate_types (SpecVal) *)

TypeOfNode(id) == NodeById(ir.nodes, id).type

DeclaredInputs(id) ==
    IF TypeOfNode(id) \in DOMAIN node_defs THEN node_defs[TypeOfNode(id)].inputs ELSE <<>>

DeclaredOutputs(id) ==
    IF TypeOfNode(id) \in DOMAIN node_defs THEN node_defs[TypeOfNode(id)].outputs ELSE <<>>

NamesOf(ports) == {ports[i].name : i \in DOMAIN ports}

\* connection c names an input port that its destination does not declare
BadToPort(c) == c.toPort # None /\ c.toPort \notin NamesOf(DeclaredInputs(c.to))

\* connection c names an output port that its source does not declare
BadFromPort(c) == c.fromPort # None /\ c.fromPort \notin NamesOf(DeclaredOutputs(c.from))

\* the connection at which the port loop stands (or stopped)
Current == conns[pending[vi].ci]

StoppedAtConn == vpc = "done" /\ vresult.kind \notin {"ok", "none"} /\ pending # <<>>

C8_UnknownFromPortOnLiteral ==
    /\ vresult.kind = "MissingOutputPort"
    /\ vresult.node = "A"
    /\ vresult.valid_output_ports = <<"out">>

\* the place of connection ci among the connections into its destination
PlaceAtDest(ci) == Cardinality({j \in 1..(ci - 1) : conns[j].to = conns[ci].to})

\* the type the destination port of connection ci expects: the named port's,
\* or the port's at the connection's place, or any beyond the declared ports
ExpectedType(ci) ==
    LET c == conns[ci]
        ins == DeclaredInputs(c.to)
    IN  IF c.toPort # None
        THEN (CHOOSE p \in Range(ins) : p.name = c.toPort).type
        ELSE IF PlaceAtDest(ci) + 1 \in DOMAIN ins THEN ins[PlaceAtDest(ci) + 1].type
        ELSE "any"

\* the type the source of connection ci delivers: the named output port's,
\* or a literal's inferred type, or the first declared output's, or any
ActualType(ci) ==
    LET c == conns[ci]
        src == NodeById(ir.nodes, c.from)
        outs == DeclaredOutputs(c.from)
    IN  IF c.fromPort # None
        THEN (CHOOSE p \in Range(outs) : p.name = c.fromPort).type
        ELSE IF src.type = "Literal"
        THEN CASE src.value = "str" -> "string"
               [] src.value = "int" -> "int"
               [] src.value = "float" -> "double"
               [] src.value = "bool" -> "bool"
               [] OTHER -> "any"
        ELSE IF outs # <<>> THEN outs[1].type
        ELSE "any"

\* C9: a TypeMismatch error is raised for a connection whose actual type is
\* not assignable to its expected type; it carries from, to, toPort,
\* expected and actual of exactly that connection, and its suggested_cast is
\* that connection's expected destination type.
C9_MismatchCarriesSuggestedCast ==
    vresult.kind = "TypeMismatch" =>
        LET ci == pending[vi].ci
        IN  /\ vpc = "done"
            /\ vresult.from = conns[ci].from
            /\ vresult.to = conns[ci].to
            /\ vresult.toPort = conns[ci].toPort
            /\ vresult.expected = ExpectedType(ci)
            /\ vresult.actual = ActualType(ci)
            /\ ~Assignable(FamilyOf(ExpectedType(ci)), FamilyOf(ActualType(ci)))
            /\ vresult.suggested_cast = ExpectedType(ci)

\* the scenario of the spec: a text literal wired to Add.a
C9_StringLiteralIntoAdd ==
    vresult = [kind |-> "TypeMismatch", from |-> "A", to |-> "C", toPort |-> "a",
               expected |-> "number", actual |-> "string", suggested_cast |-> "number"]

\* what is wrong with connection ci on its own ("none": nothing)
FailureOf(ci) ==
    LET c == conns[ci]
    IN  IF BadToPort(c) THEN "MissingInputPort"
        ELSE IF BadFromPort(c) THEN "MissingOutputPort"
        ELSE IF ~Assignable(FamilyOf(ExpectedType(ci)), FamilyOf(ActualType(ci)))
        THEN "TypeMismatch"
        ELSE "none"

\* the place in the edge list of the first connection into the same destination
FirstInto(ci) == CHOOSE j \in DOMAIN conns : conns[j].to = conns[ci].to
                                              /\ \A k \in 1..(j - 1) : conns[k].to # conns[ci].to

\* connection i is examined before connection j: destinations in the order
\* of their first connection, the connections of one destination in order
ExaminedBefore(i, j) ==
    \/ FirstInto(i) < FirstInto(j)
    \/ FirstInto(i) = FirstInto(j) /\ i < j

UnknownTypeNodes == {i \in DOMAIN ir.nodes : ir.nodes[i].type \notin DOMAIN node_defs}

\* the connections validate_types is given: the edge list, or the inputs
InputConns ==
    IF ir.edges # <<>> THEN ir.edges
    ELSE SynthEdges(ir.nodes, AllIds, 1)

UnknownEndpointConns ==
    {i \in DOMAIN InputConns : \/ InputConns[i].from \notin NodeIdsOf(ir.nodes)
                               \/ InputConns[i].to \notin NodeIdsOf(ir.nodes)}

Offending == {i \in DOMAIN conns : FailureOf(i) # "none"}

\* the outcome of validate_types by the order of its steps
FirstFailureOutcome ==
    IF UnknownTypeNodes # {}
    THEN LET i == CHOOSE i \in UnknownTypeNodes : \A j \in UnknownTypeNodes : i <= j
         IN  /\ vresult = [kind |-> "UnknownNodeType", node_id |-> ir.nodes[i].id,
                           node_type |-> ir.nodes[i].type]
             /\ conns = <<>>
             /\ compared = <<>>
    ELSE IF UnknownEndpointConns # {}
    THEN LET i == CHOOSE i \in UnknownEndpointConns : \A j \in UnknownEndpointConns : i <= j
         IN  /\ vresult = [kind |-> "UnknownEndpoint", from |-> InputConns[i].from,
                           to |-> InputConns[i].to]
             /\ compared = <<>>
    ELSE IF Offending # {}
    THEN LET i == CHOOSE i \in Offending : \A j \in Offending \ {i} : ExaminedBefore(i, j)
         IN  /\ vresult.kind = FailureOf(i)
             /\ pending[vi].ci = i
             \* only the connections examined before it (and, for a type
             \* mismatch, the connection itself) were compared
             /\ {compared[k].conn : k \in DOMAIN compared}
                    = {conns[j] : j \in {j \in DOMAIN conns :
                            ExaminedBefore(j, i) \/ (j = i /\ FailureOf(i) = "TypeMismatch")}}
    ELSE /\ vresult = [kind |-> "ok"]
         /\ Len(compared) = Len(conns)

\* C10: validate_types returns True or raises exactly one error, the first
\* failure in the order of its steps: an unknown node type anywhere in the
\* node list before any connection is examined, an unknown endpoint of any
\* connection before any port or type check, then the first offending edge
\* in per-destination incoming order; nothing is checked or reported after
\* the first failure.
C10_FirstFailureOnly ==
    /\ [](vpc = "done" => FirstFailureOutcome)
    /\ [][vresult.kind # "none" => UNCHANGED <<vresult, compared, vi, vpc>>]_vars

\* the per-destination order decides: the second edge of the list is
\* offending, too, and the error reported is the third edge's
C10_ThirdEdgeReportedBeforeSecond ==
    /\ vpc = "done"
    /\ Len(conns) = 3
    /\ UnknownTypeNodes = {}
    /\ UnknownEndpointConns = {}
    /\ Offending = {2, 3}
    /\ pending[vi].ci = 3
    /\ vresult.kind = FailureOf(3)

-----------------------------------------------------------------------------
(* Properties of the emitter (SpecEmit) *)

\* emit() has ended: it returned the text, or an exception left it
EmitEnded == epc \in {"done", "raised"}

\* the scopes of the IR: the top level and the graph of every function
Scopes ==
    {[nodes |-> ir.nodes, edges |-> ir.edges, function |-> None]}
    \cup {[nodes |-> ir.functions[i].graph.nodes, edges |-> ir.functions[i].graph.edges,
           function |-> ir.functions[i].name] : i \in DOMAIN ir.functions}

\* the operands of node n of scope sc as the IR states them: the sources of
\* the edges into n, or the inputs list when the scope has no edge list
OperandsOf(sc, n) == IF sc.edges # <<>> THEN SelectFrom(sc.edges, n.id, 1) ELSE n.inputs

Arith == {"Add", "Sub", "Mul", "Div"}

\* the nodes of scope sc that are arithmetic over one upstream node twice
TwiceTheSame(sc) ==
    {i \in DOMAIN sc.nodes :
        /\ sc.nodes[i].type \in Arith
        /\ \E u \in NodeIdsOf(sc.nodes) : OperandsOf(sc, sc.nodes[i]) = <<u, u>>}

\* the text an entry on one line covers
SpanText(m) == SubSeq(code_lines[m.start_line], m.start_col, m.end_col)

\* entries ma and mb are the spans of ports a and b of node nid of scope sc:
\* on the same line, the columns of a before those of b, the same text
PortSpans(sc, nid, ma, mb) ==
    /\ ma.node_id = nid /\ mb.node_id = nid
    /\ ma.function = sc.function /\ mb.function = sc.function
    /\ ma.port = "a" /\ mb.port = "b"
    /\ ma.start_line = ma.end_line /\ mb.start_line = mb.end_line
    /\ ma.start_line = mb.start_line
    /\ 1 <= ma.start_col /\ ma.start_col <= ma.end_col
    /\ ma.end_col < mb.start_col /\ mb.start_col <= mb.end_col
    /\ SpanText(ma) = SpanText(mb)

HasPortSpans(sc, nid) ==
    \E i \in DOMAIN mapping, j \in DOMAIN mapping : PortSpans(sc, nid, mapping[i], mapping[j])

\* C11: for an Add/Sub/Mul/Div node whose two operands are the same upstream
\* node, after emit() the mapping holds two entries of that node, ports a
\* and b, on the same line, with disjoint column ranges that each cover one
\* occurrence of the same name.
\* (Refuted at top level: the Literal branch of emit_from_graph raises a
\* NameError, so emit() ends before the Add node of Add(L, L) is emitted.)
C11_DuplicateOperandSpans ==
    EmitEnded => \A sc \in Scopes : \A i \in TwiceTheSame(sc) : HasPortSpans(sc, sc.nodes[i].id)

\* what is left of C11: the spans are there whenever emit() returns
C11_SpansWhenEmitReturns ==
    epc = "done" => \A sc \in Scopes : \A i \in TwiceTheSame(sc) : HasPortSpans(sc, sc.nodes[i].id)

\* emit() returned the spans of a node that adds a node to itself
C11_SameOperandTwiceEmitted ==
    /\ epc = "done"
    /\ \E sc \in Scopes : \E i \in TwiceTheSame(sc) : HasPortSpans(sc, sc.nodes[i].id)


\* the Call nodes of scope sc with two or more operands
CallsWithTwoInputs(sc) ==
    {i \in DOMAIN sc.nodes :
        sc.nodes[i].type = "Call" /\ Len(OperandsOf(sc, sc.nodes[i])) >= 2}

\* two entries of node nid of scope sc on one line with different columns
HasTwoColumnRanges(sc, nid) ==
    \E i \in DOMAIN mapping, j \in DOMAIN mapping :
        /\ mapping[i].node_id = nid /\ mapping[j].node_id = nid
        /\ mapping[i].function = sc.function /\ mapping[j].function = sc.function
        /\ mapping[i].start_line = mapping[j].start_line
        /\ <<mapping[i].start_col, mapping[i].end_col>>
               # <<mapping[j].start_col, mapping[j].end_col>>

\* C12: for every Call node with two or more inputs, the called function
\* defined with any number of params or unknown, after emit() the mapping
\* holds at least two entries of that node on the same start_line with
\* distinct (start_col, end_col).
\* (Refuted: the arguments of a Call to a defined function are cut to its
\* params, so a function without params leaves the coarse entry alone.)
C12_CallArgumentSpans ==
    EmitEnded => \A sc \in Scopes : \A i \in CallsWithTwoInputs(sc) :
                    HasTwoColumnRanges(sc, sc.nodes[i].id)

\* what is left of C12: when emit() returns, the two entries are there if
\* the operands are nodes of the scope and the called function is defined
\* with a param, or is unknown and the operands stand in the inputs list
C12_SpansWhenArgumentsEmitted ==
    epc = "done" =>
        \A sc \in Scopes : \A i \in CallsWithTwoInputs(sc) :
            LET n == sc.nodes[i]
                defined == {k \in DOMAIN ir.functions : ir.functions[k].name = n.name}
            IN  /\ Range(OperandsOf(sc, n)) \subseteq NodeIdsOf(sc.nodes)
                /\ IF defined = {} THEN Len(n.inputs) >= 2
                   ELSE \A k \in defined : ir.functions[k].params # <<>>
                => HasTwoColumnRanges(sc, n.id)

\* emit() returned from a Call of a function without params on two arguments
C12_CallOfNoParamsEmitted ==
    /\ epc = "done"
    /\ \E sc \in Scopes : \E i \in CallsWithTwoInputs(sc) :
          /\ ~HasTwoColumnRanges(sc, sc.nodes[i].id)
          /\ \E k \in DOMAIN ir.functions :
                ir.functions[k].name = sc.nodes[i].name /\ ir.functions[k].params = <<>>


\* validate_types(nodes, node_defs, edges) returns True
validate_types(nodes, edges) ==
    LET node_ids == NodeIdsOf(nodes)
        cs == IF edges # <<>> THEN edges
              ELSE SynthEdges(nodes, node_ids \cup InputIdsOf(nodes), 1)
        out_types == [id \in node_ids |-> OutTypeOf(NodeById(nodes, id))]
        incoming == GroupByDest(cs)
    IN  /\ FirstUnknownType(nodes) = 0
        /\ FirstUnknown(cs, node_ids) = 0
        /\ \A i \in DOMAIN incoming :
              check_connection(cs[incoming[i].ci], incoming[i].idx, nodes, out_types).err
                  = NoError

\* the IR passes validation: the sort and the type check of the validator's
\* entry point succeed, and so does the sort of the driver, which reads the
\* inputs lists; the driver skips the type check under an empty catalog
PassesValidation ==
    /\ topological_sort(ir.nodes, ir.edges).kind = "ok"
    /\ topological_sort(ir.nodes, <<>>).kind = "ok"
    /\ self_node_defs # <<>> => validate_types(ir.nodes, ir.edges)

\* node n of scope sc has a mapping entry
HasEntry(n) == \E i \in DOMAIN mapping : mapping[i].node_id = n.id

\* C13: after emit() on an IR that passes validation, every node other than
\* a Param, at top level and in every function graph, of every kind, has at
\* least one mapping entry whose node_id is the node's id.
\* (Refuted: a top-level Literal ends emit() by the NameError of C11, before
\* any entry is recorded for it or for the nodes after it.)
C13_EveryNodeMapped ==
    EmitEnded /\ PassesValidation =>
        \A sc \in Scopes : \A i \in DOMAIN sc.nodes :
            sc.nodes[i].type # "Param" => HasEntry(sc.nodes[i])

\* what is left of C13: whenever emit() returns, every node has an entry
C13_MappedWhenEmitReturns ==
    epc = "done" =>
        \A sc \in Scopes : \A i \in DOMAIN sc.nodes :
            sc.nodes[i].type # "Param" => HasEntry(sc.nodes[i])

\* emit() returned on an IR that passes the type check of the catalog, and
\* every node of the top level has an entry
C13_ValidatedIREmitted ==
    /\ epc = "done"
    /\ PassesValidation
    /\ self_node_defs # <<>>
    /\ ir.nodes # <<>>
    /\ \A i \in DOMAIN ir.nodes : HasEntry(ir.nodes[i])


\* entry m references a range of the emitted text
InText(m) ==
    /\ 1 <= m.start_line /\ m.start_line <= m.end_line /\ m.end_line <= Len(code_lines)
    /\ m.start_col # NoCol /\ m.end_col # NoCol
    /\ 1 <= m.start_col /\ m.start_col <= Len(code_lines[m.start_line])
    /\ 1 <= m.end_col /\ m.end_col <= Len(code_lines[m.end_line])
    /\ m.start_line = m.end_line => m.start_col <= m.end_col

\* entry m was recorded for a Param node of a function graph
OfParam(m) ==
    \E sc \in Scopes : \E i \in DOMAIN sc.nodes :
        /\ sc.nodes[i].type = "Param"
        /\ sc.nodes[i].id = m.node_id
        /\ sc.function = m.function

\* C14: after emit(), every mapping entry, those recorded for Param nodes
\* included, references a range that exists in the emitted text:
\* 1 <= start_line <= end_line <= number of lines, columns not null and
\* within their lines, start_col <= end_col on one line.
\* (Refuted: a Param node emits no line, and its entry is recorded from the
\* line after the last one to the last one.)
C14_EntriesInText ==
    EmitEnded => \A i \in DOMAIN mapping : InText(mapping[i])

\* what is left of C14: when emit() returns, every entry that is not the
\* entry of a Param references a range of the text
C14_InTextUnlessParam ==
    epc = "done" => \A i \in DOMAIN mapping : OfParam(mapping[i]) \/ InText(mapping[i])

\* emit() returned with the entry of a Param whose lines are inverted
C14_ParamEntryInverted ==
    /\ epc = "done"
    /\ \E i \in DOMAIN mapping :
          OfParam(mapping[i]) /\ mapping[i].start_line = mapping[i].end_line + 1


\* the coarse entries of node nid of scope sc: the lines its pass emitted
LinesOf(sc, nid) ==
    {i \in DOMAIN mapping :
        /\ mapping[i].node_id = nid
        /\ mapping[i].function = sc.function
        /\ mapping[i].port = None}

\* the edges u -> v of scope sc between its nodes, u not a Param, as places
\* in the node list
ScopeLinks(sc) ==
    {<<u, v>> \in (DOMAIN sc.nodes) \X (DOMAIN sc.nodes) :
        /\ sc.nodes[u].id \in Range(OperandsOf(sc, sc.nodes[v]))
        /\ sc.nodes[u].type # "Param"}

\* in scope sc every emitted node stands on later lines than the emitted
\* nodes it reads
EmittedInEdgeOrder(sc) ==
    \A l \in ScopeLinks(sc) :
        \A i \in LinesOf(sc, sc.nodes[l[1]].id), j \in LinesOf(sc, sc.nodes[l[2]].id) :
            mapping[i].end_line < mapping[j].start_line

\* C15: for an IR that passes validation and every edge u -> v within a
\* scope, u not a Param, the line on which v is emitted is strictly greater
\* than the line on which the binding of u is emitted.
\* (Refuted: validation reads the top level only; a function graph that
\* cannot be sorted is emitted in the order of its node list.)
C15_EmittedAfterSources ==
    EmitEnded /\ PassesValidation => \A sc \in Scopes : EmittedInEdgeOrder(sc)

\* what is left of C15: the top level of a validated IR is in edge order
C15_TopLevelAfterSources ==
    EmitEnded /\ PassesValidation =>
        \A sc \in Scopes : sc.function = None => EmittedInEdgeOrder(sc)

\* emit() returned a function whose second node reads the first and stands
\* after it
C15_FunctionNodeAfterSource ==
    /\ epc = "done"
    /\ PassesValidation
    /\ \E sc \in Scopes :
          /\ sc.function # None
          /\ <<1, 2>> \in ScopeLinks(sc)
          /\ LinesOf(sc, sc.nodes[1].id) # {} /\ LinesOf(sc, sc.nodes[2].id) # {}
          /\ EmittedInEdgeOrder(sc)


\* the names in table names of the nodes of scope sc that are bound a
\* variable of their own are pairwise distinct
DistinctNames(sc, names) ==
    \A i, j \in DOMAIN sc.nodes :
        /\ i # j
        /\ sc.nodes[i].type # "Param" /\ sc.nodes[j].type # "Param"
        /\ sc.nodes[i].id \in DOMAIN names /\ sc.nodes[j].id \in DOMAIN names
        => names[sc.nodes[i].id] # names[sc.nodes[j].id]

\* C16: within one emission scope the variable names allocated to distinct
\* nodes are pairwise distinct, for ids that sanitize to the same base
\* ('x.y' and 'x_y') and for ids that look like a suffixed name ('x_y_1').
\* (Refuted: the second use of base v_x_y is named v_x_y_1, and so is the
\* first use of base v_x_y_1.)
C16_NamesPairwiseDistinct ==
    \A sc \in Scopes :
        DistinctNames(sc, IF sc.function = None THEN var_names ELSE local_var_names)

\* what is left of C16: the names are distinct when no id of the scope
\* sanitizes to the base of another followed by a number
C16_DistinctForPlainIds ==
    \A sc \in Scopes :
        NodeIdsOf(sc.nodes) \subseteq Range(PlainIds) =>
            DistinctNames(sc, IF sc.function = None THEN var_names ELSE local_var_names)

\* the three clashing ids are named: bare base, base_1, and base_1 again
C16_SuffixedIdClashes ==
    /\ DOMAIN var_names = Range(ClashIds)
    /\ var_names["x.y"] = "v_x_y"
    /\ var_names["x_y"] = "v_x_y_1"
    /\ var_names["x_y_1"] = "v_x_y_1"


\* line is an include directive
IsDirective(line) == Len(line) > 9 /\ SubSeq(line, 1, 9) = "#include "

\* the includes named by the directives of the output
Directed == {SubSeq(code_lines[i], 10, Len(code_lines[i])) :
                i \in {j \in DOMAIN code_lines : IsDirective(code_lines[j])}}

\* the directives stand at the top of the output, sorted, each once
BlockSortedAtTop ==
    LET sorted == SortedIncludes(Directed)
    IN  /\ \A i \in DOMAIN sorted : code_lines[i] = "#include " \o sorted[i]
        /\ \A i \in DOMAIN code_lines : IsDirective(code_lines[i]) => i <= Len(sorted)

\* a string Literal or a Cast to string stands in some scope
StringEmitted ==
    \E sc \in Scopes : \E i \in DOMAIN sc.nodes :
        \/ sc.nodes[i].type = "Literal" /\ sc.nodes[i].value = "str"
        \/ sc.nodes[i].type = "Cast" /\ sc.nodes[i].targetType = "string"

\* C17: the include block at the top of the emitted C++ holds every include
\* accumulated during emission: '#include <string>' whenever a string
\* Literal or a Cast to string is emitted in any scope, '#include <iostream>'
\* always; the directives are sorted, unique and precede every function.
\* (Refuted: the block is written before the functions and main are
\* emitted, so an include added while emitting them never reaches it; and
\* an import whose name contains 'iostream' suppresses <iostream>.)
C17_IncludeBlockComplete ==
    epc = "done" =>
        /\ includes \subseteq Directed
        /\ "<iostream>" \in Directed
        /\ StringEmitted => "<string>" \in Directed
        /\ BlockSortedAtTop

\* what is left of C17: the block is sorted and unique at the top, it holds
\* every include but a <string> added during emission, and <iostream>
\* unless an import mentions iostream
C17_BlockOfIncludesKnownAtStart ==
    epc = "done" =>
        /\ includes \ {"<string>"} \subseteq Directed
        /\ "<iostream>" \in Directed \/ \E inc \in Range(ir.imports) : Contains(inc, "iostream")
        /\ BlockSortedAtTop

\* emit() returned a function with a string Literal and no <string> directive
C17_StringLiteralWithoutDirective ==
    /\ epc = "done"
    /\ "<string>" \in includes
    /\ "<string>" \notin Directed
    /\ \E sc \in Scopes : \E i \in DOMAIN sc.nodes :
          sc.nodes[i].type = "Literal" /\ sc.nodes[i].value = "str"


\* the C++ type the kinds of value stand for
TypeOfValue(val) ==
    CASE val = "bool" -> "bool"
      [] val = "int" -> "double"
      [] val = "float" -> "double"
      [] val = "str" -> "std::string"
      [] OTHER -> "auto"

\* the emitted lines that bind the Literal n of scope sc
BindingLines(sc, n) ==
    {code_lines[mapping[i].start_line] :
        i \in {j \in DOMAIN mapping : /\ mapping[j].node_id = n.id
                                      /\ mapping[j].function = sc.function
                                      /\ mapping[j].port = "out"}}

\* line declares a variable of type ctype, behind the indentation of a body
Declares(line, ctype) ==
    LET decl == indent(1) \o ctype \o " v_"
    IN  Len(line) >= Len(decl) /\ SubSeq(line, 1, Len(decl)) = decl

\* the Literal nodes of scope sc whose binding is emitted, as places
EmittedLiterals(sc) ==
    {i \in DOMAIN sc.nodes :
        sc.nodes[i].type = "Literal" /\ BindingLines(sc, sc.nodes[i]) # {}}

\* C18: for a Literal node in either scope the C++ type of the emitted
\* binding follows the kind of properties.value: boolean -> bool,
\* integer -> double, floating -> double, text -> std::string, else auto.
\* (Refuted: a boolean is tested as an integer and is declared double.)
C18_LiteralTypeByValueKind ==
    \A sc \in Scopes : \A i \in EmittedLiterals(sc) :
        \A line \in BindingLines(sc, sc.nodes[i]) :
            Declares(line, TypeOfValue(sc.nodes[i].value))

\* what is left of C18: the type is as claimed for every kind but boolean
C18_TypeByKindUnlessBoolean ==
    \A sc \in Scopes : \A i \in EmittedLiterals(sc) :
        sc.nodes[i].value # "bool" =>
            \A line \in BindingLines(sc, sc.nodes[i]) :
                Declares(line, TypeOfValue(sc.nodes[i].value))

\* emit() returned a function that declares a boolean Literal as a double
C18_BooleanDeclaredDouble ==
    /\ epc = "done"
    /\ \E sc \in Scopes : \E i \in EmittedLiterals(sc) :
          /\ sc.nodes[i].value = "bool"
          /\ \E line \in BindingLines(sc, sc.nodes[i]) :
                Declares(line, "double") /\ ~Declares(line, "bool")


-----------------------------------------------------------------------------
(* Properties of the diagnostic mapper (SpecMap) *)

\* entry m encloses the line and the column of diagnostic err
Encloses(m, err) ==
    /\ err.has_col
    /\ m.start_col # NoCol /\ m.end_col # NoCol
    /\ m.start_line <= err.line /\ err.line <= m.end_line
    /\ m.start_col <= err.col /\ err.col <= m.end_col

LineSpan(m) == m.end_line - m.start_line
ColSpan(m) == m.end_col - m.start_col

\* (line-span, col-span) of m is lexicographically smaller than that of n
Inner(m, n) ==
    \/ LineSpan(m) < LineSpan(n)
    \/ LineSpan(m) = LineSpan(n) /\ ColSpan(m) < ColSpan(n)

\* result r names entry m
Names(r, m) == r.node_id = m.node_id /\ r.function = m.function /\ r.port = m.port

Enclosing(err) == {i \in DOMAIN mapping : Encloses(mapping[i], err)}

\* C19: for a diagnostic with a column that at least one mapping entry
\* encloses, map_errors_to_nodes returns an entry that encloses (line, col)
\* and is innermost: no other enclosing entry has a lexicographically
\* smaller (line-span, col-span).
C19_InnermostEnclosingEntry ==
    \A k \in DOMAIN mapped :
        Enclosing(errors[k]) # {} =>
            \E i \in Enclosing(errors[k]) :
                /\ Names(mapped[k], mapping[i])
                /\ \A j \in Enclosing(errors[k]) : ~Inner(mapping[j], mapping[i])

\* a diagnostic inside the columns of operand a of add1, under the coarse
\* entry of add1 and the three lines of p1, is attributed to port a
C19_OperandBeforeCoarse ==
    /\ mpc = "done"
    /\ \E k \in DOMAIN mapped :
          /\ errors[k] = Diagnostic(2, TRUE, 2)
          /\ \E i, j, l \in Enclosing(errors[k]) :
                /\ mapping[i] = MapEntry("add1", None, 2, 2, 1, 4, None)
                /\ mapping[j] = MapEntry("add1", None, 2, 2, 2, 2, "a")
                /\ mapping[l] = MapEntry("p1", None, 1, 3, 1, 3, None)
                /\ i < j
          /\ mapped[k].node_id = "add1" /\ mapped[k].port = "a"


\* the entries whose lines contain the line of diagnostic err
Containing(err) ==
    {i \in DOMAIN mapping :
        mapping[i].start_line <= err.line /\ err.line <= mapping[i].end_line}

\* C20: map_errors_to_nodes returns exactly one result per diagnostic, in
\* order; when no entry encloses the column, or the diagnostic has no
\* column, the result is an entry with the smallest line range containing
\* the line; the result has node_id null (with function and port null) if
\* and only if no entry's [start_line, end_line] contains the line.
C20_OneResultEachLineFallback ==
    /\ Len(mapped) <= Len(errors)
    /\ mpc = "done" => Len(mapped) = Len(errors)
    /\ \A k \in DOMAIN mapped :
          /\ mapped[k].error = errors[k]
          /\ Enclosing(errors[k]) = {} /\ Containing(errors[k]) # {} =>
                \E i \in Containing(errors[k]) :
                    /\ Names(mapped[k], mapping[i])
                    /\ \A j \in Containing(errors[k]) : LineSpan(mapping[i]) <= LineSpan(mapping[j])
          /\ mapped[k].node_id = None <=> Containing(errors[k]) = {}
          /\ mapped[k].node_id = None => mapped[k].function = None /\ mapped[k].port = None

\* two diagnostics were mapped: one without a column on line 3, under the
\* three lines of p1 and the one line of r1, is attributed to r1; one whose
\* column no entry encloses is attributed by its line
C20_SmallestLineRangeChosen ==
    /\ mpc = "done"
    /\ Len(mapped) = 2
    /\ \E k \in DOMAIN mapped :
          /\ errors[k] = Diagnostic(3, FALSE, 0)
          /\ \E i, j \in Containing(errors[k]) :
                /\ i < j
                /\ mapping[i] = MapEntry("p1", None, 1, 3, 1, 3, None)
                /\ mapping[j] = MapEntry("r1", "f", 3, 3, NoCol, NoCol, None)
          /\ mapped[k].node_id = "r1" /\ mapped[k].function = "f"
    /\ \E k \in DOMAIN mapped :
          /\ errors[k] = Diagnostic(1, TRUE, 4)
          /\ mapped[k].node_id = "p1"

\* a diagnostic on a line that no entry contains was mapped to no node,
\* under a mapping that is not empty
C20_UncoveredLineUnattributed ==
    /\ mpc = "done"
    /\ mapping # <<>>
    /\ \E k \in DOMAIN mapped :
          /\ Containing(errors[k]) = {}
          /\ mapped[k] = Unattributed(errors[k])


-----------------------------------------------------------------------------
(* Properties of emit_line_with_fragments (SpecFrag) *)

RECURSIVE Concat(_)
\* the texts of fragments fs, one after the other
Concat(fs) == IF fs = <<>> THEN "" ELSE Head(fs).text \o Concat(Tail(fs))

\* the places in fs of the marked fragments, in order
MarkedPlaces(fs) == SelectSeq([i \in DOMAIN fs |-> i], LAMBDA i : fs[i].marker)

\* the length of the texts before place i of fs
OffsetOf(fs, i) == Len(Concat(SubSeq(fs, 1, i - 1)))

\* entry m is the span of fragment i of fs on line n, recorded for fn
SpanOfFragment(m, fs, i, n, fn, line) ==
    /\ m.node_id = fs[i].node_id /\ m.port = fs[i].port /\ m.function = fn
    /\ m.start_line = n /\ m.end_line = n
    /\ m.start_col = OffsetOf(fs, i) + 1
    /\ m.end_col = OffsetOf(fs, i) + Len(fs[i].text)
    /\ SubSeq(line, m.start_col, m.end_col) = fs[i].text

\* C26: for every call of emit_line_with_fragments the appended line is the
\* concatenation of the fragment texts in order, exactly one entry is
\* added per marked fragment and none for the others, the columns of each
\* entry are offset+1 .. offset+len(text) and cover the text of the fragment
\* in the line, and the column ranges of the marked non-empty fragments are
\* pairwise disjoint and increase in fragment order.
C26_FragmentsLineAndSpans ==
    [][returned' # returned =>
        LET places == MarkedPlaces(frags')
            new == SubSeq(mapping', Len(mapping) + 1, Len(mapping'))
            line == code_lines'[returned']
        IN  /\ code_lines' = Append(code_lines, Concat(frags'))
            /\ returned' = Len(code_lines')
            /\ SubSeq(mapping', 1, Len(mapping)) = mapping
            /\ Len(new) = Len(places)
            /\ \E fn \in {None, "f"} :
                  \A k \in DOMAIN new :
                      SpanOfFragment(new[k], frags', places[k], returned', fn, line)
            /\ \A k, l \in DOMAIN new :
                  k < l /\ frags'[places[k]].text # "" /\ frags'[places[l]].text # ""
                      => new[k].end_col < new[l].start_col]_vars

\* a call with an unmarked text and the same text marked for two ports
\* recorded the columns 3..3 and 4..4 after the entry that was there
C26_SameTextTwoSpans ==
    /\ returned = 3
    /\ frags = <<Plain("ab"), Marked("x", "n1", "a"), Marked("x", "n1", "b")>>
    /\ code_lines[3] = "abxx"
    /\ Len(mapping) = 3
    /\ mapping[2] = MapEntry("n1", "f", 3, 3, 3, 3, "a")
    /\ mapping[3] = MapEntry("n1", "f", 3, 3, 4, 4, "b")


-----------------------------------------------------------------------------
(* Further properties of the emitter (SpecEmit) *)

\* the function whose body is being emitted
InFunctionBody == epc \in {"fnodes", "freturn"}

\* the places of the Param nodes in the graph of function func
ParamPlaces(func) == {i \in DOMAIN func.graph.nodes : func.graph.nodes[i].type = "Param"}

\* C24: in a function scope Param nodes are bound to parameters first by
\* properties.name, then positionally among the remaining parameters: with
\* no more Param nodes than params, distinct Param nodes are bound to
\* distinct parameter names, and a Param node without a matching name never
\* receives a parameter taken by a name-matched Param node.
\* (Refuted: the positional pass counts from the first parameter, taken or
\* not.)
C24_ParamsBoundDistinctly ==
    InFunctionBody =>
        LET func == ir.functions[fidx]
            nodes == func.graph.nodes
        IN  Cardinality(ParamPlaces(func)) <= Len(func.params) =>
                \A i, j \in ParamPlaces(func) :
                    i # j => local_var_names[nodes[i].id] # local_var_names[nodes[j].id]

\* what is left of C24: every Param node is bound to a declared parameter
\* name or a generated one, and a Param node whose properties.name is a
\* parameter that no earlier Param node names is bound to it
C24_NamedParamBoundByName ==
    InFunctionBody =>
        LET func == ir.functions[fidx]
            nodes == func.graph.nodes
        IN  \A i \in ParamPlaces(func) :
                /\ nodes[i].id \in DOMAIN local_var_names
                /\ (/\ \E k \in DOMAIN func.params : func.params[k].name = nodes[i].name
                    /\ \A j \in ParamPlaces(func) : j < i => nodes[j].name # nodes[i].name)
                   => local_var_names[nodes[i].id] = nodes[i].name

\* a Param node named a and a Param node without name, in a function of two
\* params, are both bound to a
C24_TwoParamNodesOneName ==
    /\ InFunctionBody
    /\ Len(ir.functions[fidx].params) = 2
    /\ \E i, j \in ParamPlaces(ir.functions[fidx]) :
          LET nodes == ir.functions[fidx].graph.nodes
          IN  /\ i # j
              /\ nodes[i].name = "a" /\ nodes[j].name = None
              /\ local_var_names[nodes[i].id] = "a"
              /\ local_var_names[nodes[j].id] = "a"


\* topological_sort raises on the graph of scope sc
SortFails(sc) == topological_sort(sc.nodes, sc.edges).kind # "ok"

\* the ids of the entries of scope sc in the order of recording, the entry
\* of the return statement left out
RECURSIVE RecordedIds(_, _)
RecordedIds(sc, k) ==
    IF k = 0 THEN <<>>
    ELSE RecordedIds(sc, k - 1)
         \o (IF mapping[k].function = sc.function
                /\ mapping[k].node_id \in NodeIdsOf(sc.nodes)
             THEN <<mapping[k].node_id>> ELSE <<>>)

\* s with every run of one value shortened to one
RECURSIVE Runs(_)
Runs(s) ==
    IF Len(s) <= 1 THEN s
    ELSE IF s[1] = s[2] THEN Runs(Tail(s)) ELSE <<s[1]>> \o Runs(Tail(s))

\* every node of scope sc was emitted once, in the order of the node list
EmittedInListOrder(sc) ==
    Runs(RecordedIds(sc, Len(mapping))) = [i \in DOMAIN sc.nodes |-> sc.nodes[i].id]

\* the warning comments among the emitted lines
WarningLines ==
    {i \in DOMAIN code_lines : Contains(code_lines[i], "// Warning: topological sort failed")}

\* emission of the scopes whose sort fails went on to the end: one warning
\* each, every node once in list order
FailedSortsEmittedInListOrder ==
    /\ epc = "done"
    /\ Cardinality(WarningLines) = Cardinality({sc \in Scopes : SortFails(sc)})
    /\ \A sc \in Scopes : SortFails(sc) => EmittedInListOrder(sc)

\* C25: when topological_sort fails for the graph of a scope (a cycle, an
\* edge to an unknown node), emission of that scope does not abort: it
\* emits exactly one warning comment line, then every node of the scope
\* exactly once in the order of the node list, and emit() still returns
\* the complete translation unit.
\* (Refuted at top level through the NameError of C11: a Literal in the
\* unsorted node list ends emit().)
C25_SortFailureIsSoft ==
    EmitEnded /\ (\E sc \in Scopes : SortFails(sc)) => FailedSortsEmittedInListOrder

\* what is left of C25: it holds unless the top level has a Literal
C25_SoftUnlessTopLiteral ==
    /\ EmitEnded
    /\ \E sc \in Scopes : SortFails(sc)
    /\ \A i \in DOMAIN ir.nodes : ir.nodes[i].type # "Literal"
    => FailedSortsEmittedInListOrder

\* emit() returned from a top level of three nodes that could not be sorted
C25_UnsortedTopLevelEmitted ==
    /\ FailedSortsEmittedInListOrder
    /\ Len(ir.nodes) = 3
    /\ SortFails([nodes |-> ir.nodes, edges |-> ir.edges, function |-> None])

\* emit() returned from a function whose graph could not be sorted
C25_UnsortedFunctionEmitted ==
    /\ FailedSortsEmittedInListOrder
    /\ \E sc \in Scopes : sc.function # None /\ SortFails(sc) /\ Len(sc.nodes) = 3


\* C28: when a node inside a function graph is emitted, each of its
\* operands is resolved only from the edges of that function graph (or the
\* inputs list of the node) and the variable table of that function, never
\* from the edges or variables of the top level, even when a top-level
\* node has the id of the function node: the node is emitted as it would
\* be under a top level without edges.
\* (Refuted: _resolve_input_for_node falls through to the edge maps of the
\* top level when the function graph has no edge for the port.)
C28_FunctionNodeReadsOwnScope ==
    [][epc = "fnodes" /\ oi' = oi + 1 =>
        LET func == ir.functions[fidx]
            alone == EmitLocalNode(ordered[oi], LocalState, indent_level, self_node_defs,
                                   func.graph.edges, <<>>, func.name)
        IN  /\ code_lines' = alone.code_lines
            /\ mapping' = alone.mapping]_vars

\* what is left of C28: the node is emitted from its own scope when no edge
\* of the top level leads into a node of its id
C28_OwnScopeUnlessIdShared ==
    [][epc = "fnodes" /\ oi' = oi + 1 =>
        LET func == ir.functions[fidx]
            alone == EmitLocalNode(ordered[oi], LocalState, indent_level, self_node_defs,
                                   func.graph.edges, <<>>, func.name)
        IN  (\A i \in DOMAIN ir.edges : ir.edges[i].to # ordered[oi].id) =>
                /\ code_lines' = alone.code_lines
                /\ mapping' = alone.mapping]_vars

\* node A of a function graph without edges was emitted reading L, the
\* source of the edge into the A of the top level
C28_TopLevelEdgeRead ==
    /\ epc = "done"
    /\ ir.functions # <<>>
    /\ ir.functions[1].graph.edges = <<>>
    /\ \A i \in DOMAIN ir.functions[1].graph.nodes : ir.functions[1].graph.nodes[i].inputs = <<>>
    /\ \E i \in DOMAIN ir.edges : ir.edges[i].from = "L" /\ ir.edges[i].to = "A"
    /\ \E k \in DOMAIN mapping :
          /\ mapping[k].function = "f" /\ mapping[k].node_id = "A" /\ mapping[k].port = "a"
          /\ SpanText(mapping[k]) \in {"L", "v_L", "a"}


\* the input port of its destination against which validate_types checks
\* edge i of the edge list (None: no port, the expected type is 'any' or
\* the port name is unknown)
ValidatorPort(nodes, edges, i) ==
    LET c == edges[i]
        dest_inputs == DefOf(NodeById(nodes, c.to).type).inputs
        idx == Len(IncomingOf(SubSeq(edges, 1, i - 1), c.to, 1))
    IN  IF ~Falsy(c.toPort)
        THEN IF FindPort(dest_inputs, c.toPort) = 0 THEN None ELSE c.toPort
        ELSE IF idx < Len(dest_inputs) THEN dest_inputs[idx + 1].name ELSE None

\* the emitter placed the source of top-level edge i at port p of its
\* destination: the span of that port covers the name of the source
PlacedAt(i, p) ==
    \E k \in DOMAIN mapping :
        /\ mapping[k].node_id = ir.edges[i].to /\ mapping[k].function = None
        /\ mapping[k].port = p
        /\ SpanText(mapping[k]) = ExprOf(var_names, ir.edges[i].from)

\* the top-level edges into an arithmetic node that validate_types checks
\* against an input port, in an IR without a cycle
PortCheckedEdges ==
    {i \in DOMAIN ir.edges :
        /\ ir.edges[i].to \in NodeIdsOf(ir.nodes) /\ ir.edges[i].from \in NodeIdsOf(ir.nodes)
        /\ NodeById(ir.nodes, ir.edges[i].to).type \in Arith
        /\ ValidatorPort(ir.nodes, ir.edges, i) # None
        /\ topological_sort(ir.nodes, ir.edges).kind = "ok"}

\* C29: under one catalog, for every destination node and every incoming
\* edge list (named and positional edges mixed, one source wired twice), the
\* input port against which validate_types checks an edge is the port at
\* which the emitter places the source of that edge as operand.
\* (Refuted: the validator counts a positional edge among all the edges into
\* its destination, the emitter among the positional ones only.)
C29_ValidatorAndEmitterBindAlike ==
    epc = "done" /\ self_node_defs = node_defs =>
        \A i \in PortCheckedEdges : PlacedAt(i, ValidatorPort(ir.nodes, ir.edges, i))

\* what is left of C29: the two bind alike when the edges into the
\* destination all name no port, or name ports that differ
C29_BindAlikeWhenNotMixed ==
    epc = "done" /\ self_node_defs = node_defs =>
        \A i \in PortCheckedEdges :
            LET into == {j \in DOMAIN ir.edges : ir.edges[j].to = ir.edges[i].to}
            IN  \/ \A j \in into : Falsy(ir.edges[j].toPort)
                \/ /\ \A j \in into : ~Falsy(ir.edges[j].toPort)
                   /\ \A j \in into, k \in into :
                          j # k => ir.edges[j].toPort # ir.edges[k].toPort
                => PlacedAt(i, ValidatorPort(ir.nodes, ir.edges, i))

\* emit() returned from P with the edges L -> P named b and A -> P unnamed:
\* the validator checks A against port b, the emitter places A at port a
C29_PositionalAfterNamed ==
    /\ epc = "done" /\ self_node_defs = node_defs
    /\ ir.edges = <<PortEdge("L", "P", "b", None), PortEdge("A", "P", None, None)>>
    /\ ValidatorPort(ir.nodes, ir.edges, 2) = "b"
    /\ PlacedAt(2, "a") /\ ~PlacedAt(2, "b")


-----------------------------------------------------------------------------
(* The driver emit_compile_run: normalize, validate, emit, write, compile,   *)
(* run                                                                       *)

\* longest edge list drawn for the driver
MaxDrvEdges == 2

\* the edges the edge list of a driver IR is drawn from: into A from L with
\* and without port names (nope is no port), between A and P both ways, from
\* an unknown node, into port x of P
DriverEdgePool ==
    {PortEdge("L", "A", None, None), PortEdge("L", "A", "a", None),
     PortEdge("L", "A", "b", None), PortEdge("L", "A", "nope", None),
     PortEdge("L", "A", None, "nope"), PortEdge("A", "P", None, None),
     PortEdge("P", "A", None, None), PortEdge(UnknownId, "A", None, None),
     PortEdge("L", "P", "x", None)}

\* the function some driver IRs define
DriverFunction ==
    Function("f", <<[name |-> "a", type |-> "number"]>>, "number",
             ScopeNodes(<<"p", "s">>, <<Kind("Param", None, None, "a"),
                                        Kind("Add", None, None, None)>>,
                        <<<<1, 2>>>>, "inputs"),
             <<>>, None)

\* the IRs handed to the driver: L, A and P wired by an edge list, or by the
\* inputs lists of A and P
DriverIRs(n) ==
    {[nodes |-> <<EmitNodeOf("L", kl, <<>>),
                  EmitNodeOf("A", Kind("Add", None, None, None), ia),
                  EmitNodeOf("P", kp, ip)>>,
      edges |-> es, functions |-> fs, imports |-> <<>>] :
        kl \in {Kind("Add", None, None, None), Kind("Literal", "str", None, None),
                Kind("Repeat", None, None, None)},
        kp \in {Kind("Sqrt", None, None, None), Kind("Add", None, None, None),
                Kind("Print", None, None, None)},
        es \in SeqsUpTo(DriverEdgePool, n),
        ia \in {<<>>, <<"L">>, <<"P">>}, ip \in {<<>>, <<"A">>},
        fs \in {<<>>, <<DriverFunction>>}}

InitDrv ==
    /\ dpc = "normalize"
    /\ steps = <<>>
    /\ files = {}
    /\ rc = NotReturned
    /\ ir \in DriverIRs(MaxDrvEdges)
    /\ self_node_defs \in {<<>>, node_defs}
    /\ includes = {}
    /\ code_lines = <<>>
    /\ indent_level = 0
    /\ var_names = <<>>
    /\ _used_names = <<>>
    /\ mapping = <<>>
    /\ epc = "idle"
    /\ fidx = 0
    /\ ordered = <<>>
    /\ oi = 0
    /\ local_var_names = <<>>
    /\ local_used_names = <<>>
    /\ NormIdle
    /\ TopoIdle
    /\ TypesIdle
    /\ ValIdle
    /\ MapIdle
    /\ FragIdle
    /\ RunIdle
    /\ TwiceIdle

notDrvVars == <<normVars, topoVars, typeVars, valVars, mapVars, fragVars, runVars, twiceVars,
                self_node_defs, code_lines, indent_level, var_names, _used_names, mapping,
                fidx, ordered, oi, local_var_names, local_used_names>>

\* "ir = normalize_ir(ir)", the catalog is loaded, the normalized IR written
DrvNormalize ==
    /\ dpc = "normalize"
    /\ ir' = normalize_ir(ir)
    /\ steps' = Append(steps, "normalize")
    /\ files' = files \cup {"normalized.json"}
    /\ dpc' = "validate"
    /\ UNCHANGED <<notDrvVars, includes, epc, rc>>

\* "topological_sort(nodes)" and, under a catalog, "validate_types(nodes,
\* node_defs)": neither is handed the edge list
DriverValidates(r, defs) ==
    /\ topological_sort(r.nodes, <<>>).kind = "ok"
    /\ defs # <<>> => validate_types(r.nodes, <<>>)

\* the Validate block: return 2 on a ValidationError, else the emitter is
\* constructed on the IR and the catalog
DrvValidate ==
    /\ dpc = "validate"
    /\ steps' = Append(steps, "validate")
    /\ IF DriverValidates(ir, self_node_defs)
       THEN /\ dpc' = "emit"
            /\ epc' = "start"
            /\ includes' = Range(ir.imports)
            /\ UNCHANGED rc
       ELSE /\ dpc' = "exit"
            /\ rc' = 2
            /\ UNCHANGED <<epc, includes>>
    /\ UNCHANGED <<notDrvVars, ir, files>>

\* emit() has returned and the C++ source and the mapping are written; or
\* it has raised and the exception leaves emit_compile_run
DrvWrite ==
    /\ dpc = "emit"
    /\ EmitEnded
    /\ steps' = Append(steps, "emit")
    /\ IF epc = "done"
       THEN /\ files' = files \cup {"cpp", "map.json"}
            /\ dpc' = "compile"
       ELSE /\ dpc' = "raised"
            /\ UNCHANGED files
    /\ UNCHANGED <<notDrvVars, ir, includes, epc, rc>>

\* the Compile block: g++ fails, the diagnostics are mapped and written, and
\* 3 is returned; or it succeeds
DrvCompile ==
    /\ dpc = "compile"
    /\ steps' = Append(steps, "compile")
    /\ \/ /\ files' = files \cup {"errors.json"}
          /\ rc' = 3
          /\ dpc' = "exit"
       \/ /\ dpc' = "run"
          /\ UNCHANGED <<files, rc>>
    /\ UNCHANGED <<notDrvVars, ir, includes, epc>>

\* the Run block: 0 when the program ends within DEFAULT_EXEC_TIMEOUT, else
\* the error file is written and 4 returned
DrvRun ==
    /\ dpc = "run"
    /\ steps' = Append(steps, "run")
    /\ \/ /\ rc' = 0
          /\ UNCHANGED files
       \/ /\ files' = files \cup {"errors.json"}
          /\ rc' = 4
    /\ dpc' = "exit"
    /\ UNCHANGED <<notDrvVars, ir, includes, epc>>

NextDrv ==
    \/ DrvNormalize
    \/ DrvValidate
    \/ EmitIncludes
    \/ BeginFunction
    \/ EmitFunctionNode
    \/ EndFunction
    \/ BeginMain
    \/ EmitNode
    \/ EndMain
    \/ FinalizeMappings
    \/ DrvWrite
    \/ DrvCompile
    \/ DrvRun

SpecDrv == InitDrv /\ [][NextDrv]_vars

-----------------------------------------------------------------------------
(* Two runs of emit(): a fresh CppEmitter on the same IR and catalog, in an  *)
(* interpreter that may iterate its sets in another order                    *)

\* the includes that occur in the IRs of the two runs
TwiceIncludes == {"<cmath>", "<iostream>", "<vector>"}

\* the orders in which an interpreter may iterate a set of them
SetOrders ==
    {o \in [1..Cardinality(TwiceIncludes) -> TwiceIncludes] :
        \A i, k \in DOMAIN o : i # k => o[i] # o[k]}

\* the IRs run twice: L, A and P wired by up to n edges or inputs,
\* with or without an import and a function
TwiceIRs(n) ==
    {[nodes |-> ScopeNodes(PlainIds, <<Kind("Add", None, None, None), ka, kp>>, w, style),
      edges |-> ScopeEdges(PlainIds, <<Kind("Add", None, None, None), ka, kp>>, w, style),
      functions |-> fs, imports |-> imports] :
        ka \in {Kind("Add", None, None, None), Kind("Call", None, None, "f")},
        kp \in {Kind("Print", None, None, None), Kind("Sqrt", None, None, None)},
        w \in SeqsUpTo({<<1, 2>>, <<2, 3>>}, n), style \in {"inputs", "edges"},
        fs \in {<<>>, <<DriverFunction>>}, imports \in {<<>>, <<"<vector>">>}}

\* CppEmitter(ir, node_defs): the fresh emitter
FreshEmitter ==
    /\ includes' = Range(ir.imports)
    /\ code_lines' = <<>>
    /\ indent_level' = 0
    /\ var_names' = <<>>
    /\ _used_names' = <<>>
    /\ mapping' = <<>>
    /\ epc' = "start"
    /\ fidx' = 0
    /\ ordered' = <<>>
    /\ oi' = 0
    /\ local_var_names' = <<>>
    /\ local_used_names' = <<>>

InitTwice ==
    /\ ir \in TwiceIRs(MaxEmitEdges)
    /\ self_node_defs \in {<<>>, node_defs}
    /\ set_order \in SetOrders
    /\ first_run = <<>>
    /\ includes = Range(ir.imports)
    /\ code_lines = <<>>
    /\ indent_level = 0
    /\ var_names = <<>>
    /\ _used_names = <<>>
    /\ mapping = <<>>
    /\ epc = "start"
    /\ fidx = 0
    /\ ordered = <<>>
    /\ oi = 0
    /\ local_var_names = <<>>
    /\ local_used_names = <<>>
    /\ NormIdle
    /\ TopoIdle
    /\ TypesIdle
    /\ ValIdle
    /\ MapIdle
    /\ FragIdle
    /\ RunIdle
    /\ DrvIdle

\* the first run has ended and what it produced is kept (how it ended, the
\* text, the mapping list); a fresh emitter is made on the same IR and
\* catalog, in an interpreter with any set order
RunAgain ==
    /\ EmitEnded
    /\ first_run = <<>>
    /\ first_run' = <<[ended |-> epc, text |-> code_lines, mapping |-> mapping,
                       order |-> set_order]>>
    /\ set_order' \in SetOrders
    /\ FreshEmitter
    /\ UNCHANGED <<ir, normVars, topoVars, typeVars, valVars, mapVars, fragVars, runVars,
                   drvVars, self_node_defs>>

NextTwice ==
    \/ EmitIncludes
    \/ BeginFunction
    \/ EmitFunctionNode
    \/ EndFunction
    \/ BeginMain
    \/ EmitNode
    \/ EndMain
    \/ FinalizeMappings
    \/ RunAgain

SpecTwice == InitTwice /\ [][NextTwice]_vars

-----------------------------------------------------------------------------
(* Properties of the sandbox (SpecRun, SpecRunFair) *)

\* the program needs more than the timeout of the request
ProgramOverran == job.compile_ok /\ job.needs > job.request_timeout

\* the container was killed because the wait ran past --timeout
ContainerKilled == "kill" \in Range(docker_calls)

\* the runner printed its result after the container had been started
Reported ==
    /\ rpc = "exit" /\ Len(printed) = 1
    /\ \E i \in DOMAIN docker_calls : docker_calls[i] \in {"wait", "inspect"}

\* C23: whenever the sandboxed run exceeds its wall-clock limit, the program
\* running past the timeout of the request inside the container or the
\* container running past --timeout and being killed, the result printed
\* for the caller has success = false and error = "timeout".
\* (Refuted: a killed container leaves no output.json, or one cut short, and
\* the runner reports no_output or bad_output.)
C23_TimeoutReported ==
    Reported /\ (ProgramOverran \/ ContainerKilled) =>
        printed[1].success = FALSE /\ printed[1].error = "timeout"

\* what is left of C23: a program stopped by the timeout of the request in a
\* container that ended within --timeout is reported as a timeout
C23_TimeoutInsideContainerReported ==
    Reported /\ ProgramOverran /\ finished =>
        printed[1].success = FALSE /\ printed[1].error = "timeout"

\* the runner killed the container and printed no_output
C23_KilledReportsNoOutput ==
    /\ Reported /\ ContainerKilled
    /\ printed[1].error = "no_output"

\* the created container is gone when something is printed
RemovedBeforePrint == printed # <<>> => container \in {"none", "removed"}

\* no "docker logs" before the "docker kill"
KilledBeforeLogs ==
    \A i \in DOMAIN docker_calls, k \in DOMAIN docker_calls :
        docker_calls[i] = "kill" /\ docker_calls[k] = "logs" => i < k

\* C27: every container created is removed before the runner prints its
\* result, on every path (start failure, normal completion, wait timeout,
\* wait error); when the wait runs past --timeout the container is killed
\* before its logs and output.json are collected; and the runner always
\* terminates having printed exactly one JSON result object.
\* (Refuted: "docker logs" is read as text, and output that does not decode
\* raises before the container is removed and before anything is printed;
\* so does "docker create" when there is no docker to run.)
C27_RemovedAndOneResultPrinted ==
    /\ [](RemovedBeforePrint /\ KilledBeforeLogs /\ Len(printed) <= 1)
    /\ <>(rpc = "exit" /\ Len(printed) = 1 /\ container \in {"none", "removed"})

\* what is left of C27: the runner always ends, and when no docker call
\* raises it has removed the container it created and printed one object
C27_HoldsUnlessACallRaises ==
    /\ [](RemovedBeforePrint /\ KilledBeforeLogs /\ Len(printed) <= 1)
    /\ [](rpc = "read" /\ container = "killed" => output_json.written # "whole"
                                                  \/ ContainerTime(job) = timeout)
    /\ <>(\/ rpc = "raised"
          \/ rpc = "exit" /\ Len(printed) = 1 /\ container \in {"none", "removed"})

\* "docker logs" raised on a container that had ended: the container is
\* still there and nothing was printed
C27_LogsRaiseLeavesContainer ==
    /\ rpc = "raised"
    /\ container = "exited"
    /\ "rm" \notin Range(docker_calls)
    /\ printed = <<>>


-----------------------------------------------------------------------------
(* Properties of the driver (SpecDrv) *)

IsPrefix(s, t) == Len(s) <= Len(t) /\ SubSeq(t, 1, Len(s)) = s

DriverOrder == <<"normalize", "validate", "emit", "compile", "run">>

\* the emitter was never run and neither the C++ source nor the mapping
\* was written
NothingEmitted ==
    /\ epc = "idle" /\ code_lines = <<>> /\ mapping = <<>>
    /\ "emit" \notin Range(steps)
    /\ files \cap {"cpp", "map.json"} = {}

\* the steps run in order, and each code is returned where the driver
\* returns it: 2 by a failed validation before any emission, 3 after
\* emission by the compile step, 4 after the compile step by the run step,
\* 0 after the run step
StepsAndCodes ==
    /\ IsPrefix(steps, DriverOrder)
    /\ dpc \notin {"normalize", "validate"} /\ ~DriverValidates(ir, self_node_defs)
          => rc = 2
    /\ rc = 2 => steps = <<"normalize", "validate">> /\ NothingEmitted
                 /\ ~DriverValidates(ir, self_node_defs)
    /\ rc = 3 => steps = <<"normalize", "validate", "emit", "compile">> /\ epc = "done"
    /\ rc = 4 => steps = DriverOrder /\ epc = "done"
    /\ rc = 0 => steps = DriverOrder /\ epc = "done"
    /\ dpc = "exit" <=> rc # NotReturned

\* C21: emit_compile_run takes its steps in the order normalize, validate,
\* emit, compile, run; a validation failure (the cycle X -> Y, Y -> X)
\* makes it return 2 before any emission, the emitter never run and neither
\* C++ source nor mapping file written; 3 is returned only after emission
\* when the compile fails, 4 only after a successful compile when the run
\* times out, and 0 otherwise.
\* (Refuted: on an IR with a top-level Literal emit() raises the NameError
\* of C11 and emit_compile_run returns no code at all.)
C21_StepsInOrderAndExitCodes ==
    /\ StepsAndCodes
    /\ dpc # "raised"

\* what is left of C21: the order and the codes, whenever emit() returns
C21_OrderAndCodesWhenEmitReturns == StepsAndCodes

\* the driver was left by the exception of emit(), after validation passed,
\* with no code returned and no C++ source written
C21_EmitRaisedInDriver ==
    /\ dpc = "raised"
    /\ steps = <<"normalize", "validate", "emit">>
    /\ rc = NotReturned
    /\ "cpp" \notin files

\* the cycle A -> P, P -> A was rejected with 2 and nothing was emitted
C21_CycleReturnsTwo ==
    /\ rc = 2
    /\ ir.edges = <<PortEdge("A", "P", None, None), PortEdge("P", "A", None, None)>>
    /\ NothingEmitted

\* the validator's entry point accepts the IR: the sort and the type check,
\* both handed the edge list
ValidatorAccepts(r) ==
    /\ topological_sort(r.nodes, r.edges).kind = "ok"
    /\ validate_types(r.nodes, r.edges)

\* C30: for an IR with a non-empty edge list under a non-empty catalog,
\* whenever topological_sort(nodes, edges) or validate_types(nodes,
\* catalog, edges) would raise (unknown endpoint, unknown toPort or
\* fromPort, type mismatch on a named port), emit_compile_run returns 2 and
\* emits nothing.
\* (Refuted: the driver hands neither function the edge list, so port names
\* are never looked at and endpoints that normalize_ir dropped are not seen.)
C30_DriverAsStrictAsValidator ==
    /\ dpc \notin {"normalize", "validate"}
    /\ ir.edges # <<>> /\ self_node_defs # <<>>
    /\ ~ValidatorAccepts(ir)
    => rc = 2 /\ NothingEmitted

\* what is left of C30: a cycle among the edges is rejected by the driver
C30_CycleRejected ==
    /\ dpc \notin {"normalize", "validate"}
    /\ ir.edges # <<>>
    /\ topological_sort(ir.nodes, ir.edges).kind \notin {"ok", "UnknownNode"}
    => rc = 2 /\ NothingEmitted

\* the driver wrote the C++ source of an IR whose only edge names the port
\* nope, which validate_types rejects when handed the edge list
C30_UnknownPortEmitted ==
    /\ ir.edges = <<PortEdge("L", "A", "nope", None)>>
    /\ self_node_defs # <<>>
    /\ ~validate_types(ir.nodes, ir.edges)
    /\ "cpp" \in files
    /\ rc = 0


-----------------------------------------------------------------------------
(* Properties of two runs of emit() (SpecTwice) *)

=============================================================================
